---- MODULE Spec2Model ----
(***************************************************************************)
(* LeagueLegacy: the import pipeline (Sleeper and Yahoo services) and the  *)
(* owner-mapping endpoints, over the relational store of app/db/models.py. *)
(*                                                                         *)
(* The store is one record `db` of tables; a table is a set of rows, a row *)
(* a record with the columns the operations read or write.  Columns that   *)
(* every import overwrites with the same remote field (losses, ties,       *)
(* points_for, playoff_weeks, ...) are represented by one such column per  *)
(* table (Team.wins, Season.regular_season_weeks); created_at/updated_at   *)
(* and Trade.assets_exchanged are not represented.                         *)
(*                                                                         *)
(* Every service method is an operator from a store to a record            *)
(* [db |-> store after the method's commit, ...its return value...].       *)
(***************************************************************************)
EXTENDS Integers, Sequences, FiniteSets, TLC

VARIABLES db, remote, last, ops

vars == <<db, remote, last, ops>>

(***************************************************************************)
(* Bounds of the model.                                                    *)
(***************************************************************************)
\* number of operations (imports, owner endpoints, remote changes) in a run
MaxOps == 3
\* weeks an import asks the platform for (total_weeks / end_week, scaled)
MaxWeeks == 1
\* games in a winners bracket given to the bracket functions
MaxBracketLen == 3
\* get_league calls after which the model stops following a chain
MaxCalls == 5

(***************************************************************************)
(* Values.                                                                 *)
(***************************************************************************)
\* Python None in an Optional[int] column or an integer remote field
NoId == 0
\* Python None in an Optional[str] column or a string remote field
NoStr == "NULL"
\* Python None as a matchup entry's "points"
NoPts == 0 - 1

\* Python truthiness of an Optional[str]: None and "" are falsy
Falsy(s) == s \in {NoStr, ""}

\* x or y, on Optional[str]
OrElse(x, y) == IF Falsy(x) THEN y ELSE x

\* str(roster_id) and int(platform_team_id)
Digits == <<"1", "2", "3">>
ToStr(n) == IF n \in DOMAIN Digits THEN Digits[n] ELSE "None"
ToInt(s) == CHOOSE n \in DOMAIN Digits : Digits[n] = s

Max(S) == CHOOSE x \in S : \A y \in S : y <= x
Min(S) == CHOOSE x \in S : \A y \in S : x <= y

\* INTEGER PRIMARY KEY of a new row (SQLite rowid: largest in use plus one)
NextId(rows) == IF rows = {} THEN 1 ELSE Max({r.id : r \in rows}) + 1

\* Query.first(): the matching row of lowest id, or no row
NoRow == [id |-> NoId]
\* a variant of First: a query that never finds a row
NoneFound(rows) == NoRow
First(rows) == IF rows = {} THEN NoRow
               ELSE CHOOSE r \in rows : r.id = Min({x.id : x \in rows})

\* the row r of a table replaced by the row n of the same id (UPDATE), or added
Put(rows, n) == {r \in rows : r.id # n.id} \cup {n}

\* statements run in order: v is computed to a value, then the rest F runs on it
Bind(v, F(_)) == CHOOSE r \in {F(x) : x \in {v}} : TRUE

\* the tables, and the journal of the last import request: its commits in
\* order, each with the League or Season it wrote for, and the start of each
\* champion detection
EmptyDb ==
    [leagues |-> {}, seasons |-> {}, owners |-> {}, teams |-> {},
     matchups |-> {}, trades |-> {}, trade_teams |-> {}, journal |-> << >>]

\* an entry of the journal: self.db.commit() at the end of a service method
\* ("league", "season", "teams", "matchups", "trades"), or the call of
\* detect_and_set_champion ("detect")
Journal(d, what, id) == [d EXCEPT !.journal = Append(@, <<what, id>>)]

(***************************************************************************)
(* The remote platforms.  Fixed parts are operators; the parts that change *)
(* between imports are the fields of the variable `remote`.                *)
(***************************************************************************)
SleeperIds == {"S24", "S23"}
YahooKeys == {"Y24"}

\* Sleeper GET /league/<id>: previous_league_id chains S24 -> S23 -> none;
\* rec10 is scoring_settings.rec in tenths (1 -> 10, 0.5 -> 5)
SleeperLeague(lid) ==
    IF lid = "S24"
    THEN [name |-> "Dynasty", season |-> 2024, status |-> "in_season",
          previous_league_id |-> "S23", total_rosters |-> 2, rec10 |-> 10,
          playoff_week_start |-> 2]
    ELSE [name |-> "Dynasty", season |-> 2023, status |-> "complete",
          previous_league_id |-> "", total_rosters |-> 2, rec10 |-> 5,
          playoff_week_start |-> 1]

\* Sleeper GET /league/<id>/users: display names differ between the seasons
SleeperUsers(lid) ==
    IF lid = "S24"
    THEN << [user_id |-> "u1", display_name |-> "Ann", username |-> "ann", avatar |-> "av1"],
            [user_id |-> "u2", display_name |-> NoStr, username |-> "bob", avatar |-> NoStr] >>
    ELSE << [user_id |-> "u1", display_name |-> "Annie", username |-> "ann", avatar |-> NoStr],
            [user_id |-> "u2", display_name |-> "Bob", username |-> "bob", avatar |-> "av2"] >>

\* Sleeper GET /league/<id>/rosters, with the owner of each roster as it is now
SleeperRosters(rem, lid) ==
    << [roster_id |-> 1, owner_id |-> rem.sowner[lid][1], wins |-> 1],
       [roster_id |-> 2, owner_id |-> rem.sowner[lid][2], wins |-> 0] >>

\* one week's GET /league/<id>/matchups/<week>: an entry per roster
SleeperWeekChoices ==
    { << [roster_id |-> 1, matchup_id |-> 1, points |-> 2],
         [roster_id |-> 2, matchup_id |-> 1, points |-> 1] >>,
      << [roster_id |-> 1, matchup_id |-> 1, points |-> 1],
         [roster_id |-> 2, matchup_id |-> 1, points |-> 2] >>,
      << [roster_id |-> 2, matchup_id |-> 1, points |-> NoPts],
         [roster_id |-> 1, matchup_id |-> 1, points |-> 0] >>,
      << [roster_id |-> 1, matchup_id |-> 1, points |-> 1],
         [roster_id |-> 2, matchup_id |-> NoId, points |-> 0] >>,
      << >> }

SleeperMatchups(rem, lid, week) == rem.sweek[lid]

\* GET /league/<id>/transactions/<week>; x1 names a roster the league does not
\* have, x3 names a roster twice
SleeperTransactions(lid, week) ==
    IF lid = "S23"
    THEN << [transaction_id |-> "x1", type |-> "trade", status |-> "complete",
             roster_ids |-> <<1, 2, 3>>],
            [transaction_id |-> "w1", type |-> "waiver", status |-> "complete",
             roster_ids |-> <<1>>] >>
    ELSE << [transaction_id |-> "x2", type |-> "trade", status |-> "failed",
             roster_ids |-> <<1, 2>>],
            [transaction_id |-> "x3", type |-> "trade", status |-> "complete",
             roster_ids |-> <<2, 1, 2>>] >>

\* GET /league/<id>/winners_bracket as it is now: no bracket yet, a final not
\* played yet (w and l null), a final played
SleeperBracketChoices ==
    { << >>,
      << [r |-> 1, m |-> 1, w |-> NoId, l |-> NoId] >>,
      << [r |-> 1, m |-> 1, w |-> 2, l |-> 1] >> }

SleeperBracket(rem, lid) == rem.sbracket[lid]

\* Yahoo league metadata (_parse_league)
YahooLeague(key) ==
    [league_key |-> key, name |-> "Office", season |-> 2024, num_teams |-> 2,
     scoring_type |-> "head", end_week |-> 1, is_finished |-> TRUE]

\* Yahoo standings (_parse_team with its manager)
YahooStandings(key) ==
    << [team_key |-> "t1", name |-> "Aces", guid |-> "g1", manager_id |-> "1",
        nickname |-> "Ann", image_url |-> NoStr, wins |-> 1],
       [team_key |-> "t2", name |-> "Kings", guid |-> "", manager_id |-> "2",
        nickname |-> "Cy", image_url |-> "img2", wins |-> 0],
       [team_key |-> "t3", name |-> "Ghosts", guid |-> "", manager_id |-> "",
        nickname |-> "", image_url |-> NoStr, wins |-> 0] >>

\* one week's scoreboard (_parse_matchup): the two teams, the flags, the winner
YahooWeekChoices ==
    { << [teams |-> << [team_key |-> "t1", points |-> 2], [team_key |-> "t2", points |-> 1] >>,
          is_tied |-> FALSE, winner_team_key |-> "t1",
          is_playoffs |-> TRUE, is_consolation |-> FALSE] >>,
      << [teams |-> << [team_key |-> "t1", points |-> 1], [team_key |-> "t2", points |-> 2] >>,
          is_tied |-> FALSE, winner_team_key |-> NoStr,
          is_playoffs |-> FALSE, is_consolation |-> FALSE] >>,
      << [teams |-> << [team_key |-> "t2", points |-> 1], [team_key |-> "t1", points |-> 1] >>,
          is_tied |-> TRUE, winner_team_key |-> NoStr,
          is_playoffs |-> TRUE, is_consolation |-> TRUE] >>,
      << [teams |-> << [team_key |-> "t1", points |-> 1], [team_key |-> "t2", points |-> 1] >>,
          is_tied |-> FALSE, winner_team_key |-> NoStr,
          is_playoffs |-> FALSE, is_consolation |-> FALSE] >>,
      << [teams |-> << [team_key |-> "t1", points |-> 2], [team_key |-> "t2", points |-> 1] >>,
          is_tied |-> FALSE, winner_team_key |-> "t9",
          is_playoffs |-> TRUE, is_consolation |-> FALSE] >>,
      << [teams |-> << [team_key |-> "t1", points |-> 2] >>,
          is_tied |-> FALSE, winner_team_key |-> "t1",
          is_playoffs |-> FALSE, is_consolation |-> FALSE] >> }

YahooMatchups(rem, key, week) == rem.yweek[key]

\* Yahoo trades (_parse_transaction, type trade)
YahooTrades(key) ==
    << [transaction_id |-> "y1", trader_team_key |-> "t1", tradee_team_key |-> "t2",
        status |-> "successful"],
       [transaction_id |-> "", trader_team_key |-> "t1", tradee_team_key |-> "t2",
        status |-> "successful"] >>

InitRemote ==
    [sowner |-> [l \in SleeperIds |-> <<"u1", "u2">>],
     sweek |-> [l \in SleeperIds |->
                  << [roster_id |-> 1, matchup_id |-> 1, points |-> 2],
                     [roster_id |-> 2, matchup_id |-> 1, points |-> 1] >>],
     sbracket |-> [l \in SleeperIds |->
                     IF l = "S23" THEN << [r |-> 1, m |-> 1, w |-> 2, l |-> 1] >>
                     ELSE << >>],
     yweek |-> [k \in YahooKeys |->
                  << [teams |-> << [team_key |-> "t1", points |-> 2],
                                   [team_key |-> "t2", points |-> 1] >>,
                      is_tied |-> FALSE, winner_team_key |-> "t1",
                      is_playoffs |-> TRUE, is_consolation |-> FALSE] >>]]

(***************************************************************************)
(* SleeperService (app/services/sleeper_service.py).                       *)
(* The session is created with autoflush=False: a query sees the committed *)
(* and the flushed rows.  The remote lists above name each natural key     *)
(* (roster id, pairing of a week, transaction id) at most once per call,   *)
(* so no query of a loop targets a row still pending in that loop.         *)
(***************************************************************************)
ScoringType(rec10) ==
    IF rec10 = 10 THEN "PPR" ELSE IF rec10 = 5 THEN "Half PPR" ELSE "Standard"

SleeperImportLeague(d, lid) ==
    LET data == SleeperLeague(lid)
        found == First({l \in d.leagues :
                          l.platform = "sleeper" /\ l.platform_league_id = lid})
        row == [id |-> IF found.id = NoId THEN NextId(d.leagues) ELSE found.id,
                platform |-> "sleeper", platform_league_id |-> lid,
                name |-> data.name, team_count |-> data.total_rosters,
                scoring_type |-> ScoringType(data.rec10)]
    IN  [db |-> Journal([d EXCEPT !.leagues = Put(@, row)], "league", row.id),
         league |-> row.id]

\* a variant of LeagueFor: every season imports under a League of its own id
OwnLeague(d, lid, league) == SleeperImportLeague(d, lid)

\* if not league: league = await self.import_league(league_id)
\* (league = NoId is the call without a League, league=None)
LeagueFor(d, lid, league) ==
    IF league = NoId THEN SleeperImportLeague(d, lid) ELSE [db |-> d, league |-> league]

\* a variant of SleeperImportSeason: the Season is looked up by its League alone
SeasonOfLeagueOnly(d, lid, league) ==
    Bind(LeagueFor(d, lid, league), LAMBDA s1 :
    LET data == SleeperLeague(lid)
        found == First({s \in s1.db.seasons : s.league_id = s1.league})
        base == IF found.id = NoId
                THEN [id |-> NextId(s1.db.seasons), league_id |-> s1.league,
                      year |-> data.season, champion_team_id |-> NoId,
                      runner_up_team_id |-> NoId, regular_season_weeks |-> 0,
                      is_complete |-> FALSE]
                ELSE [found EXCEPT !.year = data.season]
        row == [base EXCEPT !.regular_season_weeks = data.playoff_week_start - 1,
                            !.is_complete = (data.status = "complete")]
    IN  [db |-> Journal([s1.db EXCEPT !.seasons = Put(@, row)], "season", row.id),
         season |-> row.id])

SleeperImportSeason(d, lid, league) ==
    Bind(LeagueFor(d, lid, league), LAMBDA s1 :
    LET data == SleeperLeague(lid)
        found == First({s \in s1.db.seasons :
                          s.league_id = s1.league /\ s.year = data.season})
        base == IF found.id = NoId
                THEN [id |-> NextId(s1.db.seasons), league_id |-> s1.league,
                      year |-> data.season, champion_team_id |-> NoId,
                      runner_up_team_id |-> NoId, regular_season_weeks |-> 0,
                      is_complete |-> FALSE]
                ELSE found
        row == [base EXCEPT !.regular_season_weeks = data.playoff_week_start - 1,
                            !.is_complete = (data.status = "complete")]
    IN  [db |-> Journal([s1.db EXCEPT !.seasons = Put(@, row)], "season", row.id),
         season |-> row.id])

\* SleeperClient.get_avatar_url
AvatarUrl(avatar) ==
    IF Falsy(avatar) THEN NoStr ELSE "https://sleepercdn.com/avatars/" \o avatar

NoUser == [user_id |-> NoStr, display_name |-> NoStr, username |-> NoStr, avatar |-> NoStr]

\* user_lookup.get(owner_id, {}) over {u["user_id"]: u for u in users if u.get("user_id")}
RECURSIVE UserLookup(_, _)
UserLookup(users, uid) ==
    IF users = << >> THEN NoUser
    ELSE LET u == users[Len(users)]
         IN  IF ~Falsy(u.user_id) /\ u.user_id = uid THEN u
             ELSE UserLookup(SubSeq(users, 1, Len(users) - 1), uid)

\* a variant of WithoutOwner: every entry is taken to have an owner
NeverWithoutOwner(user_id) == FALSE

\* if not owner_id: continue  /  if not yahoo_user_id: continue
WithoutOwner(user_id) == Falsy(user_id)

\* the body of the roster loop: acc is [db, teams], teams the ids appended so far
SleeperRosterStep(acc, lid, season, roster) ==
    IF WithoutOwner(roster.owner_id) THEN acc
    ELSE
    LET d == acc.db
        user == UserLookup(SleeperUsers(lid), roster.owner_id)
        found == First({o \in d.owners : o.sleeper_user_id = roster.owner_id})
        owner == IF found.id = NoId
                 THEN [id |-> NextId(d.owners),
                       name |-> OrElse(user.display_name, OrElse(user.username, "Unknown")),
                       display_name |-> user.display_name,
                       avatar_url |-> AvatarUrl(user.avatar),
                       sleeper_user_id |-> roster.owner_id,
                       yahoo_user_id |-> NoStr]
                 ELSE [found EXCEPT
                         !.display_name = OrElse(user.display_name, found.display_name),
                         !.avatar_url = IF Falsy(AvatarUrl(user.avatar)) THEN @
                                        ELSE AvatarUrl(user.avatar)]
        tfound == First({t \in d.teams : t.season_id = season
                           /\ t.platform_team_id = ToStr(roster.roster_id)})
        tbase == IF tfound.id = NoId
                 THEN [id |-> NextId(d.teams), season_id |-> season,
                       owner_id |-> owner.id,
                       name |-> OrElse(user.display_name,
                                   OrElse(user.username, "Team " \o ToStr(roster.roster_id))),
                       platform_team_id |-> ToStr(roster.roster_id), wins |-> 0]
                 ELSE [tfound EXCEPT !.owner_id = owner.id]
        team == [tbase EXCEPT !.wins = roster.wins]
    IN  [db |-> [d EXCEPT !.owners = Put(@, owner), !.teams = Put(@, team)],
         teams |-> Append(acc.teams, team.id)]

RECURSIVE SleeperRosterLoop(_, _, _, _)
SleeperRosterLoop(acc, lid, season, rosters) ==
    IF rosters = << >> THEN acc
    ELSE Bind(SleeperRosterStep(acc, lid, season, Head(rosters)),
              LAMBDA next : SleeperRosterLoop(next, lid, season, Tail(rosters)))

SleeperImportUsersAndRosters(d, rem, lid, league) ==
    Bind(SleeperImportSeason(d, lid, league), LAMBDA s1 :
    Bind(SleeperRosterLoop([db |-> s1.db, teams |-> << >>], lid, s1.season,
                           SleeperRosters(rem, lid)), LAMBDA r :
        [db |-> Journal(r.db, "teams", s1.season), teams |-> r.teams,
         season |-> s1.season]))

TeamRow(d, id) == CHOOSE t \in d.teams : t.id = id

\* dict lookup {key(t): t for t in teams}.get(k): the last team of the list
\* with that platform_team_id, NoId when there is none
RECURSIVE TeamLookup(_, _, _)
TeamLookup(d, teams, k) ==
    IF teams = << >> THEN NoId
    ELSE IF TeamRow(d, teams[Len(teams)]).platform_team_id = k THEN teams[Len(teams)]
         ELSE TeamLookup(d, SubSeq(teams, 1, Len(teams) - 1), k)

\* season = teams[0].season if teams else await self.import_season(...)
SleeperSeasonOf(r, lid, league) ==
    IF r.teams # << >>
    THEN [db |-> r.db, season |-> TeamRow(r.db, r.teams[1]).season_id]
    ELSE SleeperImportSeason(r.db, lid, league)

\* a variant of ExistingMatchup: the import never looks for the row
NoExistingMatchup(d, season, week, home, away) == NoRow

\* the query for the row of a pairing: season, week, home team, away team
ExistingMatchup(d, season, week, home, away) ==
    First({m \in d.matchups : m.season_id = season /\ m.week = week
             /\ m.home_team_id = home /\ m.away_team_id = away})

\* the matchup ids of a week in the order they first appear (dict insertion order)
RECURSIVE GroupIds(_, _)
GroupIds(entries, seen) ==
    IF entries = << >> THEN seen
    ELSE LET g == Head(entries).matchup_id
             dup == \E i \in DOMAIN seen : seen[i] = g
         IN  GroupIds(Tail(entries), IF g = NoId \/ dup THEN seen ELSE Append(seen, g))

Points(p) == IF p.points = NoPts THEN 0 ELSE p.points

\* a variant of SleeperWinnerId: the first team keeps a drawn game
HomeWinsDraw(score_1, score_2, team_1, team_2) ==
    IF score_1 >= score_2 THEN team_1 ELSE team_2

\* the winner of a pairing: the strictly greater score, None when equal
SleeperWinnerId(score_1, score_2, team_1, team_2) ==
    IF score_1 > score_2 THEN team_1
    ELSE IF score_2 > score_1 THEN team_2 ELSE NoId

\* the body of the matchup-group loop: acc is [db, matchups]
SleeperMatchupStep(acc, teams, season, week, playoffStart, participants) ==
    IF Len(participants) # 2 THEN acc
    ELSE
    LET d == acc.db
        p1 == participants[1]
        p2 == participants[2]
        team_1 == TeamLookup(d, teams, ToStr(p1.roster_id))
        team_2 == TeamLookup(d, teams, ToStr(p2.roster_id))
        score_1 == Points(p1)
        score_2 == Points(p2)
        winner_id == SleeperWinnerId(score_1, score_2, team_1, team_2)
        is_tie == ~(score_1 > score_2) /\ ~(score_2 > score_1)
        found == ExistingMatchup(d, season, week, team_1, team_2)
        base == IF found.id = NoId
                THEN [id |-> NextId(d.matchups), season_id |-> season, week |-> week,
                      home_team_id |-> team_1, away_team_id |-> team_2,
                      home_score |-> 0, away_score |-> 0, winner_team_id |-> NoId,
                      is_tie |-> FALSE, is_playoff |-> FALSE, is_consolation |-> FALSE]
                ELSE found
        row == [base EXCEPT !.home_score = score_1, !.away_score = score_2,
                            !.winner_team_id = winner_id, !.is_tie = is_tie,
                            !.is_playoff = (week >= playoffStart)]
    IN  IF team_1 = NoId \/ team_2 = NoId THEN acc
        ELSE [db |-> [d EXCEPT !.matchups = Put(@, row)],
              matchups |-> Append(acc.matchups, row.id)]

RECURSIVE SleeperGroupLoop(_, _, _, _, _, _, _)
SleeperGroupLoop(acc, teams, season, week, playoffStart, entries, gids) ==
    IF gids = << >> THEN acc
    ELSE Bind(SleeperMatchupStep(acc, teams, season, week, playoffStart,
                  SelectSeq(entries, LAMBDA e : e.matchup_id = Head(gids))),
              LAMBDA next : SleeperGroupLoop(next, teams, season, week, playoffStart,
                                             entries, Tail(gids)))

\* weeks 1..total_weeks in order; a week without data is left out
\* (SleeperClient.get_all_matchups_for_season)
RECURSIVE SleeperWeekLoop(_, _, _, _, _, _)
SleeperWeekLoop(acc, rem, lid, teams, season, week) ==
    IF week > MaxWeeks THEN acc
    ELSE LET entries == SleeperMatchups(rem, lid, week)
             next == IF entries = << >> THEN acc
                     ELSE SleeperGroupLoop(acc, teams, season, week,
                              SleeperLeague(lid).playoff_week_start,
                              entries, GroupIds(entries, << >>))
         IN  Bind(next, LAMBDA n : SleeperWeekLoop(n, rem, lid, teams, season, week + 1))

SleeperImportMatchups(d, rem, lid, league) ==
    Bind(SleeperImportUsersAndRosters(d, rem, lid, league), LAMBDA r :
    Bind(SleeperSeasonOf(r, lid, league), LAMBDA s :
    Bind(SleeperWeekLoop([db |-> s.db, matchups |-> << >>], rem, lid,
                         r.teams, s.season, 1), LAMBDA m :
        [db |-> Journal(m.db, "matchups", s.season), matchups |-> m.matchups])))

\* SleeperClient.get_all_trades_for_season: the completed trades of weeks
\* 1..total_weeks, each with its week
RECURSIVE SleeperAllTrades(_, _)
SleeperAllTrades(lid, week) ==
    IF week > MaxWeeks THEN << >>
    ELSE LET txs == SelectSeq(SleeperTransactions(lid, week),
                        LAMBDA t : t.type = "trade" /\ t.status = "complete")
         IN  [i \in DOMAIN txs |->
                [transaction_id |-> txs[i].transaction_id,
                 roster_ids |-> txs[i].roster_ids, week |-> week]]
             \o SleeperAllTrades(lid, week + 1)

\* the teams of a trade: for roster_id in roster_ids, team_lookup.get(roster_id)
\* over {int(t.platform_team_id): t for t in teams}
RECURSIVE TeamLookupInt(_, _, _)
TeamLookupInt(d, teams, n) ==
    IF teams = << >> THEN NoId
    ELSE IF ToInt(TeamRow(d, teams[Len(teams)]).platform_team_id) = n THEN teams[Len(teams)]
         ELSE TeamLookupInt(d, SubSeq(teams, 1, Len(teams) - 1), n)

TradeTeams(d, teams, roster_ids) ==
    {TeamLookupInt(d, teams, roster_ids[i]) : i \in DOMAIN roster_ids} \ {NoId}

\* a variant of ReplaceLinks: the teams are added to the links the trade has
AppendLinks(rows, trade_id, linked) == rows \cup {<<trade_id, t>> : t \in linked}

\* trade.teams = [] followed by the appends: the rows of trade_teams (primary
\* key (trade_id, team_id)) of the trade become the teams linked
ReplaceLinks(rows, trade_id, linked) ==
    {x \in rows : x[1] # trade_id} \cup {<<trade_id, t>> : t \in linked}

\* a variant of ExistingTrade: the import never looks for the row
NoExistingTrade(d, transaction_id) == NoRow

\* the query for the row of a transaction (the same in both services); the
\* row added for a new transaction is flushed before the next query
ExistingTrade(d, transaction_id) ==
    First({t \in d.trades : t.platform_trade_id = transaction_id})

\* the body of the trade loop: acc is [db, trades]
SleeperTradeStep(acc, teams, season, tx) ==
    LET d == acc.db
        found == ExistingTrade(d, tx.transaction_id)
        row == IF found.id = NoId
               THEN [id |-> NextId(d.trades), season_id |-> season,
                     platform_trade_id |-> tx.transaction_id, week |-> tx.week,
                     status |-> "completed"]
               ELSE found
        linked == TradeTeams(d, teams, tx.roster_ids)
    IN  [db |-> [d EXCEPT !.trades = Put(@, row),
                          !.trade_teams = ReplaceLinks(@, row.id, linked)],
         trades |-> Append(acc.trades, row.id)]

RECURSIVE SleeperTradeLoop(_, _, _, _)
SleeperTradeLoop(acc, teams, season, txs) ==
    IF txs = << >> THEN acc
    ELSE Bind(SleeperTradeStep(acc, teams, season, Head(txs)),
              LAMBDA next : SleeperTradeLoop(next, teams, season, Tail(txs)))

SleeperImportTrades(d, rem, lid, league) ==
    Bind(SleeperImportUsersAndRosters(d, rem, lid, league), LAMBDA r :
    Bind(SleeperSeasonOf(r, lid, league), LAMBDA s :
    Bind(SleeperTradeLoop([db |-> s.db, trades |-> << >>], r.teams, s.season,
                          SleeperAllTrades(lid, 1)), LAMBDA t :
        [db |-> Journal(t.db, "trades", s.season), trades |-> t.trades])))

\* SleeperClient.get_championship_round
ChampionshipRound(bracket) ==
    IF bracket = << >> THEN 0 ELSE Max({bracket[i].r : i \in DOMAIN bracket})

\* a variant of ChampionshipMatchup: the first game listed of the top round
FirstOfTopRound(bracket) ==
    IF bracket = << >> THEN [r |-> 0, m |-> 0, w |-> NoId, l |-> NoId]
    ELSE SelectSeq(bracket, LAMBDA g : g.r = ChampionshipRound(bracket))[1]

\* SleeperClient.get_championship_matchup; [r |-> 0] stands for None
NoGame == [r |-> 0, m |-> 0, w |-> NoId, l |-> NoId]
ChampionshipMatchup(bracket) ==
    IF bracket = << >> \/ ChampionshipRound(bracket) = 0 THEN NoGame
    ELSE LET top == SelectSeq(bracket, LAMBDA g : g.r = ChampionshipRound(bracket))
         IN  IF Len(top) = 1 THEN top[1]
             ELSE top[CHOOSE i \in DOMAIN top :
                        /\ \A j \in DOMAIN top : top[i].m <= top[j].m
                        /\ \A j \in 1..(i - 1) : top[j].m > top[i].m]

\* get_champion_roster_id / get_runner_up_roster_id
ChampionRosterId(bracket) == ChampionshipMatchup(bracket).w
RunnerUpRosterId(bracket) == ChampionshipMatchup(bracket).l

\* a variant of SleeperDetectAndSetChampion: the Season takes whatever the
\* bracket gives, a null result included
OverwritingDetect(d, rem, lid, season, teams) ==
    LET bracket == SleeperBracket(rem, lid)
        champion == IF ChampionRosterId(bracket) = NoId THEN NoId
                    ELSE TeamLookup(d, teams, ToStr(ChampionRosterId(bracket)))
        runner_up == IF RunnerUpRosterId(bracket) = NoId THEN NoId
                     ELSE TeamLookup(d, teams, ToStr(RunnerUpRosterId(bracket)))
        old == CHOOSE s \in d.seasons : s.id = season
        row == [old EXCEPT !.champion_team_id = champion,
                           !.runner_up_team_id = runner_up]
    IN  [db |-> [d EXCEPT !.seasons = Put(@, row)],
         champion |-> champion, runner_up |-> runner_up]

SleeperDetectAndSetChampion(d, rem, lid, season, teams) ==
    LET bracket == SleeperBracket(rem, lid)
        champion == IF ChampionRosterId(bracket) = NoId THEN NoId
                    ELSE TeamLookup(d, teams, ToStr(ChampionRosterId(bracket)))
        runner_up == IF RunnerUpRosterId(bracket) = NoId THEN NoId
                     ELSE TeamLookup(d, teams, ToStr(RunnerUpRosterId(bracket)))
        old == CHOOSE s \in d.seasons : s.id = season
        row == [old EXCEPT
                  !.champion_team_id = IF champion # NoId THEN champion ELSE @,
                  !.runner_up_team_id = IF runner_up # NoId THEN runner_up ELSE @]
    IN  IF bracket = << >>
        THEN [db |-> d, champion |-> NoId, runner_up |-> NoId]
        ELSE [db |-> [d EXCEPT !.seasons = Put(@, row)],
              champion |-> champion, runner_up |-> runner_up]

\* a variant of SleeperImportSingleSeason: the champion is looked for as soon
\* as the Season row exists
DetectFirst(d, rem, lid, league) ==
    Bind(SleeperImportSeason(d, lid, league), LAMBDA s :
    Bind(SleeperDetectAndSetChampion(Journal(s.db, "detect", s.season), rem, lid,
                                     s.season, << >>), LAMBDA c :
    Bind(SleeperImportUsersAndRosters(c.db, rem, lid, league), LAMBDA t :
    Bind(SleeperImportMatchups(t.db, rem, lid, league), LAMBDA m :
    Bind(SleeperImportTrades(m.db, rem, lid, league), LAMBDA x :
        [db |-> x.db,
         season_year |-> (CHOOSE r \in x.db.seasons : r.id = s.season).year,
         teams_imported |-> Len(t.teams),
         matchups_imported |-> Len(m.matchups),
         trades_imported |-> Len(x.trades),
         champion_team_id |-> c.champion,
         runner_up_team_id |-> c.runner_up])))))

SleeperImportSingleSeason(d, rem, lid, league) ==
    Bind(SleeperImportSeason(d, lid, league), LAMBDA s :
    Bind(SleeperImportUsersAndRosters(s.db, rem, lid, league), LAMBDA t :
    Bind(SleeperImportMatchups(t.db, rem, lid, league), LAMBDA m :
    Bind(SleeperImportTrades(m.db, rem, lid, league), LAMBDA x :
    Bind(SleeperDetectAndSetChampion(Journal(x.db, "detect", s.season), rem, lid,
                                     s.season, t.teams), LAMBDA c :
        [db |-> c.db,
         season_year |-> (CHOOSE r \in c.db.seasons : r.id = s.season).year,
         teams_imported |-> Len(t.teams),
         matchups_imported |-> Len(m.matchups),
         trades_imported |-> Len(x.trades),
         champion_team_id |-> c.champion,
         runner_up_team_id |-> c.runner_up])))))

\* SleeperClient.get_league_history_chain: follow previous_league_id until it
\* is None or empty
RECURSIVE LeagueHistoryChain(_)
LeagueHistoryChain(lid) ==
    IF Falsy(lid) THEN << >>
    ELSE <<lid>> \o LeagueHistoryChain(SleeperLeague(lid).previous_league_id)

\* the loop over the chain: acc is [db, seasons], seasons the per-season results
RECURSIVE SleeperSeasonLoop(_, _, _, _)
SleeperSeasonLoop(acc, rem, league, chain) ==
    IF chain = << >> THEN acc
    ELSE Bind(SleeperImportSingleSeason(acc.db, rem, Head(chain), league),
              LAMBDA r : SleeperSeasonLoop(
                 [db |-> r.db,
                  total_teams |-> acc.total_teams + r.teams_imported,
                  total_matchups |-> acc.total_matchups + r.matchups_imported,
                  total_trades |-> acc.total_trades + r.trades_imported,
                  seasons |-> Append(acc.seasons,
                                     [season_year |-> r.season_year,
                                      champion_team_id |-> r.champion_team_id,
                                      runner_up_team_id |-> r.runner_up_team_id])],
                 rem, league, Tail(chain)))

SleeperImportFullLeague(d, rem, lid) ==
    Bind(LeagueHistoryChain(lid), LAMBDA chain :
    Bind(SleeperImportLeague([d EXCEPT !.journal = << >>], lid), LAMBDA l :
    Bind(SleeperSeasonLoop(
             [db |-> l.db, total_teams |-> 0, total_matchups |-> 0,
              total_trades |-> 0, seasons |-> << >>],
             rem, l.league, chain), LAMBDA r :
        [db |-> r.db, league_id |-> l.league,
         seasons_imported |-> Len(r.seasons), seasons |-> r.seasons,
         teams_imported |-> r.total_teams,
         matchups_imported |-> r.total_matchups,
         trades_imported |-> r.total_trades])))

\* import_full_league up to and including the n-th season of the chain
SleeperImportPrefix(d, rem, lid, n) ==
    Bind(LeagueHistoryChain(lid), LAMBDA chain :
    Bind(SleeperImportLeague([d EXCEPT !.journal = << >>], lid), LAMBDA l :
    Bind(SleeperSeasonLoop(
             [db |-> l.db, total_teams |-> 0, total_matchups |-> 0,
              total_trades |-> 0, seasons |-> << >>],
             rem, l.league, SubSeq(chain, 1, n)), LAMBDA r :
        [db |-> r.db, league_id |-> l.league])))

\* the store after the first `stage` methods of import_single_season have
\* returned (import_season, import_users_and_rosters, import_matchups,
\* import_trades)
SleeperSeasonStages(d, rem, lid, league, stage) ==
    IF stage = 0 THEN d
    ELSE Bind(SleeperImportSeason(d, lid, league), LAMBDA s :
         IF stage = 1 THEN s.db
         ELSE Bind(SleeperImportUsersAndRosters(s.db, rem, lid, league), LAMBDA t :
              IF stage = 2 THEN t.db
              ELSE Bind(SleeperImportMatchups(t.db, rem, lid, league), LAMBDA m :
                   IF stage = 3 THEN m.db
                   ELSE SleeperImportTrades(m.db, rem, lid, league).db)))

\* the method that follows fails at a remote call: before its own calls
\* (nested = 0), or after the import_season (1) or the
\* import_users_and_rosters (2) it starts with has committed.  Every method
\* makes its remote calls before its first write, so nothing is pending.
SleeperSeasonCut(d, rem, lid, league, stage, nested) ==
    Bind(SleeperSeasonStages(d, rem, lid, league, stage), LAMBDA b :
        IF nested = 0 THEN b
        ELSE IF nested = 1 THEN SleeperImportSeason(b, lid, league).db
        ELSE SleeperImportUsersAndRosters(b, rem, lid, league).db)

\* the points of import_single_season at which a remote call is made
FailurePoints ==
    {<<0, 0>>, <<1, 0>>, <<1, 1>>, <<2, 0>>, <<2, 1>>, <<2, 2>>,
     <<3, 0>>, <<3, 1>>, <<3, 2>>, <<4, 0>>}

\* import_full_league whose remote call at point pt of the k-th season raises
SleeperImportInterrupted(d, rem, lid, k, pt) ==
    Bind(SleeperImportPrefix(d, rem, lid, k - 1), LAMBDA p :
        [db |-> SleeperSeasonCut(p.db, rem, LeagueHistoryChain(lid)[k], p.league_id,
                                 pt[1], pt[2]),
         league_id |-> p.league_id])

(***************************************************************************)
(* YahooService (app/services/yahoo_service.py).                           *)
(***************************************************************************)
YahooImportLeague(d, key) ==
    LET data == YahooLeague(key)
        found == First({l \in d.leagues :
                          l.platform = "yahoo" /\ l.platform_league_id = data.league_key})
        row == [id |-> IF found.id = NoId THEN NextId(d.leagues) ELSE found.id,
                platform |-> "yahoo", platform_league_id |-> data.league_key,
                name |-> data.name, team_count |-> data.num_teams,
                scoring_type |-> data.scoring_type]
    IN  [db |-> Journal([d EXCEPT !.leagues = Put(@, row)], "league", row.id),
         league |-> row.id]

YahooImportSeason(d, key) ==
    Bind(YahooImportLeague(d, key), LAMBDA s1 :
    LET data == YahooLeague(key)
        found == First({s \in s1.db.seasons :
                          s.league_id = s1.league /\ s.year = data.season})
        base == IF found.id = NoId
                THEN [id |-> NextId(s1.db.seasons), league_id |-> s1.league,
                      year |-> data.season, champion_team_id |-> NoId,
                      runner_up_team_id |-> NoId, regular_season_weeks |-> 0,
                      is_complete |-> FALSE]
                ELSE found
        row == [base EXCEPT !.regular_season_weeks = data.end_week,
                            !.is_complete = data.is_finished]
    IN  [db |-> Journal([s1.db EXCEPT !.seasons = Put(@, row)], "season", row.id),
         season |-> row.id])

\* the body of the standings loop: acc is [db, teams]
YahooStandingStep(acc, season, team_data) ==
    LET yahoo_user_id == OrElse(team_data.guid, team_data.manager_id)
    IN
    IF WithoutOwner(yahoo_user_id) THEN acc
    ELSE
    LET d == acc.db
        found == First({o \in d.owners : o.yahoo_user_id = yahoo_user_id})
        owner == IF found.id = NoId
                 THEN [id |-> NextId(d.owners), name |-> team_data.nickname,
                       display_name |-> team_data.nickname,
                       avatar_url |-> team_data.image_url,
                       sleeper_user_id |-> NoStr, yahoo_user_id |-> yahoo_user_id]
                 ELSE [found EXCEPT
                         !.display_name = OrElse(team_data.nickname, found.display_name),
                         !.avatar_url = IF Falsy(team_data.image_url) THEN @
                                        ELSE team_data.image_url]
        tfound == First({t \in d.teams : t.season_id = season
                           /\ t.platform_team_id = team_data.team_key})
        tbase == IF tfound.id = NoId
                 THEN [id |-> NextId(d.teams), season_id |-> season,
                       owner_id |-> owner.id, name |-> team_data.name,
                       platform_team_id |-> team_data.team_key, wins |-> 0]
                 ELSE [tfound EXCEPT !.owner_id = owner.id, !.name = team_data.name]
        team == [tbase EXCEPT !.wins = team_data.wins]
    IN  [db |-> [d EXCEPT !.owners = Put(@, owner), !.teams = Put(@, team)],
         teams |-> Append(acc.teams, team.id)]

RECURSIVE YahooStandingLoop(_, _, _)
YahooStandingLoop(acc, season, standings) ==
    IF standings = << >> THEN acc
    ELSE Bind(YahooStandingStep(acc, season, Head(standings)),
              LAMBDA next : YahooStandingLoop(next, season, Tail(standings)))

YahooImportStandings(d, key) ==
    Bind(YahooImportSeason(d, key), LAMBDA s1 :
    Bind(YahooStandingLoop([db |-> s1.db, teams |-> << >>], s1.season,
                           YahooStandings(key)), LAMBDA r :
        [db |-> Journal(r.db, "teams", s1.season), teams |-> r.teams,
         season |-> s1.season]))

YahooSeasonOf(r, key) ==
    IF r.teams # << >>
    THEN [db |-> r.db, season |-> TeamRow(r.db, r.teams[1]).season_id]
    ELSE YahooImportSeason(r.db, key)

\* team_lookup.get(k) over {t.platform_team_id: t for t in teams if t.platform_team_id}
YahooTeamLookup(d, teams, k) == IF Falsy(k) THEN NoId ELSE TeamLookup(d, teams, k)

\* the body of the matchup loop: acc is [db, matchups]
YahooMatchupStep(acc, teams, season, week, matchup_data) ==
    IF Len(matchup_data.teams) # 2 THEN acc
    ELSE
    LET d == acc.db
        t1 == matchup_data.teams[1]
        t2 == matchup_data.teams[2]
        team_1 == YahooTeamLookup(d, teams, t1.team_key)
        team_2 == YahooTeamLookup(d, teams, t2.team_key)
        winner_key == matchup_data.winner_team_key
        winner_id == IF matchup_data.is_tied THEN NoId
                     ELSE IF ~Falsy(winner_key) THEN YahooTeamLookup(d, teams, winner_key)
                     ELSE IF t1.points > t2.points THEN team_1
                     ELSE IF t2.points > t1.points THEN team_2
                     ELSE NoId
        is_tied == \/ matchup_data.is_tied
                   \/ (Falsy(winner_key) /\ t1.points = t2.points)
        found == ExistingMatchup(d, season, week, team_1, team_2)
        base == IF found.id = NoId
                THEN [id |-> NextId(d.matchups), season_id |-> season, week |-> week,
                      home_team_id |-> team_1, away_team_id |-> team_2,
                      home_score |-> 0, away_score |-> 0, winner_team_id |-> NoId,
                      is_tie |-> FALSE, is_playoff |-> FALSE, is_consolation |-> FALSE]
                ELSE found
        row == [base EXCEPT !.home_score = t1.points, !.away_score = t2.points,
                            !.winner_team_id = winner_id, !.is_tie = is_tied,
                            !.is_playoff = matchup_data.is_playoffs,
                            !.is_consolation = matchup_data.is_consolation]
    IN  IF team_1 = NoId \/ team_2 = NoId THEN acc
        ELSE [db |-> [d EXCEPT !.matchups = Put(@, row)],
              matchups |-> Append(acc.matchups, row.id)]

RECURSIVE YahooMatchupLoop(_, _, _, _, _)
YahooMatchupLoop(acc, teams, season, week, list) ==
    IF list = << >> THEN acc
    ELSE Bind(YahooMatchupStep(acc, teams, season, week, Head(list)),
              LAMBDA next : YahooMatchupLoop(next, teams, season, week, Tail(list)))

\* weeks start_week..end_week in order (YahooClient.get_all_matchups_for_season)
RECURSIVE YahooWeekLoop(_, _, _, _, _, _)
YahooWeekLoop(acc, rem, key, teams, season, week) ==
    IF week > MaxWeeks THEN acc
    ELSE Bind(YahooMatchupLoop(acc, teams, season, week, YahooMatchups(rem, key, week)),
              LAMBDA next : YahooWeekLoop(next, rem, key, teams, season, week + 1))

YahooImportMatchups(d, rem, key) ==
    Bind(YahooImportStandings(d, key), LAMBDA r :
    Bind(YahooSeasonOf(r, key), LAMBDA s :
    Bind(YahooWeekLoop([db |-> s.db, matchups |-> << >>], rem, key,
                       r.teams, s.season, 1), LAMBDA m :
        [db |-> Journal(m.db, "matchups", s.season), matchups |-> m.matchups])))

\* the body of the trade loop: acc is [db, trades]
YahooTradeStep(acc, teams, season, tx) ==
    IF Falsy(tx.transaction_id) THEN acc
    ELSE
    LET d == acc.db
        found == ExistingTrade(d, tx.transaction_id)
        row == IF found.id = NoId
               THEN [id |-> NextId(d.trades), season_id |-> season,
                     platform_trade_id |-> tx.transaction_id, week |-> NoId,
                     status |-> tx.status]
               ELSE found
        linked == {YahooTeamLookup(d, teams, k) :
                     k \in {tx.trader_team_key, tx.tradee_team_key}} \ {NoId}
    IN  [db |-> [d EXCEPT !.trades = Put(@, row),
                          !.trade_teams = ReplaceLinks(@, row.id, linked)],
         trades |-> Append(acc.trades, row.id)]

RECURSIVE YahooTradeLoop(_, _, _, _)
YahooTradeLoop(acc, teams, season, txs) ==
    IF txs = << >> THEN acc
    ELSE Bind(YahooTradeStep(acc, teams, season, Head(txs)),
              LAMBDA next : YahooTradeLoop(next, teams, season, Tail(txs)))

YahooImportTrades(d, key) ==
    Bind(YahooImportStandings(d, key), LAMBDA r :
    Bind(YahooSeasonOf(r, key), LAMBDA s :
    Bind(YahooTradeLoop([db |-> s.db, trades |-> << >>], r.teams, s.season,
                        YahooTrades(key)), LAMBDA t :
        [db |-> Journal(t.db, "trades", s.season), trades |-> t.trades])))

YahooImportFullLeague(d, rem, key) ==
    Bind(YahooImportLeague([d EXCEPT !.journal = << >>], key), LAMBDA l :
    Bind(YahooImportSeason(l.db, key), LAMBDA s :
    Bind(YahooImportStandings(s.db, key), LAMBDA t :
    Bind(YahooImportMatchups(t.db, rem, key), LAMBDA m :
    Bind(YahooImportTrades(m.db, key), LAMBDA x :
        [db |-> x.db, league_id |-> l.league,
         season_year |-> (CHOOSE r \in x.db.seasons : r.id = s.season).year,
         teams_imported |-> Len(t.teams),
         matchups_imported |-> Len(m.matchups),
         trades_imported |-> Len(x.trades)])))))

\* the matchup of the final week the loop breaks at: the first one flagged
\* playoff and not consolation whose winner_team_key is in the lookup;
\* << >> when there is none
YahooFinal(d, teams, list) ==
    LET finals == SelectSeq(list, LAMBDA m :
                      /\ m.is_playoffs /\ ~m.is_consolation
                      /\ YahooTeamLookup(d, teams, m.winner_team_key) # NoId)
    IN  IF finals = << >> THEN << >> ELSE << finals[1] >>

\* the last team of the matchup that is not the winner and is in the lookup
RECURSIVE YahooLoser(_, _, _, _)
YahooLoser(d, teams, ts, winner_key) ==
    IF ts = << >> THEN NoId
    ELSE LET t == ts[Len(ts)]
             id == YahooTeamLookup(d, teams, t.team_key)
         IN  IF ~Falsy(t.team_key) /\ t.team_key # winner_key /\ id # NoId THEN id
             ELSE YahooLoser(d, teams, SubSeq(ts, 1, Len(ts) - 1), winner_key)

\* the ids of a season's teams in id order (Query.all())
RECURSIVE IdSeq(_)
IdSeq(S) == IF S = {} THEN << >> ELSE <<Min(S)>> \o IdSeq(S \ {Min(S)})

YahooDetectAndSetChampion(d, rem, key, season) ==
    LET teams == IdSeq({t.id : t \in {x \in d.teams : x.season_id = season}})
        final == YahooFinal(d, teams, YahooMatchups(rem, key, YahooLeague(key).end_week))
        winner_key == IF final = << >> THEN NoStr ELSE final[1].winner_team_key
        champion == YahooTeamLookup(d, teams, winner_key)
        runner_up == IF champion = NoId THEN NoId
                     ELSE YahooLoser(d, teams, final[1].teams, winner_key)
        old == CHOOSE s \in d.seasons : s.id = season
        row == [old EXCEPT !.champion_team_id = champion,
                           !.runner_up_team_id = runner_up]
    IN  [db |-> IF champion # NoId THEN [d EXCEPT !.seasons = Put(@, row)] ELSE d,
         champion |-> champion]

YahooImportFullLeagueWithChampion(d, rem, key) ==
    Bind(YahooImportFullLeague(d, rem, key), LAMBDA r :
    Bind(First({l \in r.db.leagues :
                  l.platform = "yahoo" /\ l.platform_league_id = key}), LAMBDA league :
    Bind(IF league.id = NoId THEN NoRow
         ELSE First({s \in r.db.seasons :
                       s.league_id = league.id /\ s.year = r.season_year}), LAMBDA season :
    Bind(IF season.id # NoId /\ season.is_complete
         THEN YahooDetectAndSetChampion(Journal(r.db, "detect", season.id), rem, key,
                                        season.id)
         ELSE [db |-> r.db, champion |-> NoId], LAMBDA c :
        [db |-> c.db, league_id |-> r.league_id, season_year |-> r.season_year,
         teams_imported |-> r.teams_imported,
         matchups_imported |-> r.matchups_imported,
         trades_imported |-> r.trades_imported,
         champion_team_id |-> c.champion]))))

(***************************************************************************)
(* The constraints of the schema (app/db/models.py), checked when a        *)
(* transaction flushes: a violation raises IntegrityError, the request     *)
(* ends with an error and its session is closed without a commit.          *)
(***************************************************************************)
\* a variant of UniqueOwnerIds: columns without the UNIQUE constraint
Unconstrained(owners) == TRUE

\* owners.sleeper_user_id and owners.yahoo_user_id are UNIQUE (NULLs apart)
UniqueOwnerIds(owners) ==
    \A a, b \in owners :
        a.id # b.id =>
            /\ (a.sleeper_user_id # NoStr => a.sleeper_user_id # b.sleeper_user_id)
            /\ (a.yahoo_user_id # NoStr => a.yahoo_user_id # b.yahoo_user_id)

\* teams.owner_id is NOT NULL
OwnerIdNotNull(teams) == \A t \in teams : t.owner_id # NoId

(***************************************************************************)
(* The owner endpoints (app/api/owners.py).  Each returns the store after  *)
(* the request and the HTTP status (500: an uncaught IntegrityError).      *)
(***************************************************************************)
CreateOwnerMapping(d, req) ==
    LET bySleeper == First({o \in d.owners : o.sleeper_user_id = req.sleeper_user_id})
        byYahoo == First({o \in d.owners : o.yahoo_user_id = req.yahoo_user_id})
        owner == [id |-> NextId(d.owners), name |-> req.name,
                  display_name |-> req.display_name, avatar_url |-> req.avatar_url,
                  sleeper_user_id |-> req.sleeper_user_id,
                  yahoo_user_id |-> req.yahoo_user_id]
        owners == d.owners \cup {owner}
    IN  IF ~Falsy(req.sleeper_user_id) /\ bySleeper.id # NoId
        THEN [db |-> d, status |-> 400, owner |-> NoId]
        ELSE IF ~Falsy(req.yahoo_user_id) /\ byYahoo.id # NoId
        THEN [db |-> d, status |-> 400, owner |-> NoId]
        ELSE IF ~UniqueOwnerIds(owners)
        THEN [db |-> d, status |-> 500, owner |-> NoId]
        ELSE [db |-> [d EXCEPT !.owners = owners], status |-> 201, owner |-> owner.id]

UpdateOwnerMapping(d, owner_id, req) ==
    LET owner == First({o \in d.owners : o.id = owner_id})
        bySleeper == First({o \in d.owners :
                              o.sleeper_user_id = req.sleeper_user_id /\ o.id # owner_id})
        byYahoo == First({o \in d.owners :
                            o.yahoo_user_id = req.yahoo_user_id /\ o.id # owner_id})
        row == [owner EXCEPT
                  !.sleeper_user_id = IF req.sleeper_user_id # NoStr
                                      THEN req.sleeper_user_id ELSE @,
                  !.yahoo_user_id = IF req.yahoo_user_id # NoStr
                                    THEN req.yahoo_user_id ELSE @,
                  !.display_name = IF req.display_name # NoStr
                                   THEN req.display_name ELSE @,
                  !.avatar_url = IF req.avatar_url # NoStr THEN req.avatar_url ELSE @]
    IN  IF owner.id = NoId
        THEN [db |-> d, status |-> 404, owner |-> NoId]
        ELSE IF req.sleeper_user_id # NoStr /\ bySleeper.id # NoId
        THEN [db |-> d, status |-> 400, owner |-> NoId]
        ELSE IF req.yahoo_user_id # NoStr /\ byYahoo.id # NoId
        THEN [db |-> d, status |-> 400, owner |-> NoId]
        ELSE IF ~UniqueOwnerIds(Put(d.owners, row))
        THEN [db |-> d, status |-> 500, owner |-> NoId]
        ELSE [db |-> [d EXCEPT !.owners = Put(@, row)], status |-> 200,
              owner |-> owner_id]

UnlinkPlatform(d, owner_id, platform) ==
    LET owner == First({o \in d.owners : o.id = owner_id})
        row == IF platform = "sleeper" THEN [owner EXCEPT !.sleeper_user_id = NoStr]
               ELSE [owner EXCEPT !.yahoo_user_id = NoStr]
    IN  IF owner.id = NoId
        THEN [db |-> d, status |-> 404, owner |-> NoId]
        ELSE IF platform \notin {"sleeper", "yahoo"}
        THEN [db |-> d, status |-> 400, owner |-> NoId]
        ELSE [db |-> [d EXCEPT !.owners = Put(@, row)], status |-> 200,
              owner |-> owner_id]

\* Owner.teams is a relationship without delete cascade: when the flush
\* deletes an Owner, every Team in its loaded collection gets owner_id = NULL
DeleteOwnerFlush(teams, collection) ==
    {IF t.id \in collection THEN [t EXCEPT !.owner_id = NoId] ELSE t : t \in teams}

\* a variant of MergeRejected: only the existence checks
RejectedIfMissing(d, primary_owner_id, secondary_owner_id) ==
    IF \/ First({o \in d.owners : o.id = primary_owner_id}).id = NoId
       \/ First({o \in d.owners : o.id = secondary_owner_id}).id = NoId
    THEN 404 ELSE 200

\* the checks of merge_owners: the status of the HTTPException raised, 200 if none
MergeRejected(d, primary_owner_id, secondary_owner_id) ==
    IF primary_owner_id = secondary_owner_id THEN 400
    ELSE IF First({o \in d.owners : o.id = primary_owner_id}).id = NoId THEN 404
    ELSE IF First({o \in d.owners : o.id = secondary_owner_id}).id = NoId THEN 404
    ELSE 200

MergeOwners(d, primary_owner_id, secondary_owner_id) ==
    LET primary == First({o \in d.owners : o.id = primary_owner_id})
        secondary == First({o \in d.owners : o.id = secondary_owner_id})
        sleeper_id_to_merge == IF Falsy(primary.sleeper_user_id)
                               THEN secondary.sleeper_user_id ELSE NoStr
        yahoo_id_to_merge == IF Falsy(primary.yahoo_user_id)
                             THEN secondary.yahoo_user_id ELSE NoStr
        display_name_to_merge == IF Falsy(primary.display_name)
                                 THEN secondary.display_name ELSE NoStr
        avatar_url_to_merge == IF Falsy(primary.avatar_url)
                               THEN secondary.avatar_url ELSE NoStr
        \* secondary.teams, loaded by the transfer loop
        collection == {t.id : t \in {x \in d.teams : x.owner_id = secondary_owner_id}}
        transferred == {IF t.id \in collection
                        THEN [t EXCEPT !.owner_id = primary_owner_id] ELSE t :
                          t \in d.teams}
        merged == [primary EXCEPT
                     !.sleeper_user_id = IF Falsy(sleeper_id_to_merge) THEN @
                                         ELSE sleeper_id_to_merge,
                     !.yahoo_user_id = IF Falsy(yahoo_id_to_merge) THEN @
                                       ELSE yahoo_id_to_merge,
                     !.display_name = IF Falsy(display_name_to_merge) THEN @
                                      ELSE display_name_to_merge,
                     !.avatar_url = IF Falsy(avatar_url_to_merge) THEN @
                                    ELSE avatar_url_to_merge]
        \* db.delete(secondary); db.commit()
        final == [d EXCEPT
                    !.owners = Put({o \in @ : o.id # secondary_owner_id}, merged),
                    !.teams = DeleteOwnerFlush(transferred, collection)]
        rejected == MergeRejected(d, primary_owner_id, secondary_owner_id)
    IN  IF rejected # 200
        THEN [db |-> d, status |-> rejected]
        ELSE IF ~OwnerIdNotNull(final.teams) \/ ~UniqueOwnerIds(final.owners)
        THEN [db |-> d, status |-> 500]
        ELSE [db |-> final, status |-> 200]

(***************************************************************************)
(* The state machine: requests arrive one at a time; the remote data       *)
(* changes between requests.                                               *)
(***************************************************************************)
NoRet == [teams |-> 0, matchups |-> 0, trades |-> 0, seasons |-> 0, results |-> << >>]
\* the last request: its operation and arguments, the store it found (pre), the
\* HTTP status and the counts it returned
Call(op, key, p, s, status, ret) ==
    [op |-> op, key |-> key, p |-> p, s |-> s, pre |-> db, status |-> status,
     ret |-> ret]

\* the owner ids a request may name: the existing ones and one that is not
OwnerArgs == {o.id : o \in db.owners} \cup {NextId(db.owners)}

CreateRequests ==
    [name : {"Zed"}, display_name : {"Zed"}, avatar_url : {NoStr},
     sleeper_user_id : {NoStr, "", "u1"}, yahoo_user_id : {NoStr, "g1"}]

UpdateRequests ==
    { [sleeper_user_id |-> "u2", yahoo_user_id |-> NoStr, display_name |-> NoStr,
       avatar_url |-> NoStr],
      [sleeper_user_id |-> NoStr, yahoo_user_id |-> "g1", display_name |-> NoStr,
       avatar_url |-> NoStr],
      [sleeper_user_id |-> NoStr, yahoo_user_id |-> NoStr, display_name |-> "Zed",
       avatar_url |-> "img9"] }

Init ==
    /\ db = EmptyDb
    /\ remote = InitRemote
    /\ last = Call("init", "", NoId, NoId, 0, NoRet)
    /\ ops = 0

SleeperImport(lid) ==
    /\ ops < MaxOps
    /\ \E r \in {SleeperImportFullLeague(db, remote, lid)} :
           /\ db' = r.db
           /\ last' = Call("sleeper_import", lid, r.league_id, NoId, 200,
                           [teams |-> r.teams_imported, matchups |-> r.matchups_imported,
                            trades |-> r.trades_imported, seasons |-> r.seasons_imported,
                            results |-> r.seasons])
    /\ ops' = ops + 1
    /\ UNCHANGED remote

YahooImport(key) ==
    /\ ops < MaxOps
    /\ \E r \in {YahooImportFullLeague(db, remote, key)} :
           /\ db' = r.db
           /\ last' = Call("yahoo_import", key, r.league_id, NoId, 200,
                           [teams |-> r.teams_imported, matchups |-> r.matchups_imported,
                            trades |-> r.trades_imported, seasons |-> 1,
                            results |-> << >>])
    /\ ops' = ops + 1
    /\ UNCHANGED remote

YahooImportWithChampion(key) ==
    /\ ops < MaxOps
    /\ \E r \in {YahooImportFullLeagueWithChampion(db, remote, key)} :
           /\ db' = r.db
           /\ last' = Call("yahoo_import_champion", key, r.league_id, r.champion_team_id,
                           200,
                           [teams |-> r.teams_imported, matchups |-> r.matchups_imported,
                            trades |-> r.trades_imported, seasons |-> 1,
                            results |-> << >>])
    /\ ops' = ops + 1
    /\ UNCHANGED remote

CreateMapping(req) ==
    /\ ops < MaxOps
    /\ \E r \in {CreateOwnerMapping(db, req)} :
           /\ db' = r.db
           /\ last' = Call("create_owner_mapping", "", r.owner, NoId, r.status, NoRet)
    /\ ops' = ops + 1
    /\ UNCHANGED remote

UpdateMapping(owner_id, req) ==
    /\ ops < MaxOps
    /\ \E r \in {UpdateOwnerMapping(db, owner_id, req)} :
           /\ db' = r.db
           /\ last' = Call("update_owner_mapping", "", owner_id, NoId, r.status, NoRet)
    /\ ops' = ops + 1
    /\ UNCHANGED remote

Unlink(owner_id, platform) ==
    /\ ops < MaxOps
    /\ \E r \in {UnlinkPlatform(db, owner_id, platform)} :
           /\ db' = r.db
           /\ last' = Call("unlink_platform", platform, owner_id, NoId, r.status, NoRet)
    /\ ops' = ops + 1
    /\ UNCHANGED remote

Merge(p, s) ==
    /\ ops < MaxOps
    /\ \E r \in {MergeOwners(db, p, s)} :
           /\ db' = r.db
           /\ last' = Call("merge_owners", "", p, s, r.status, NoRet)
    /\ ops' = ops + 1
    /\ UNCHANGED remote

\* a roster changes hands, or loses its owner, on the platform
RemoteRosterOwner(lid, rid, uid) ==
    /\ ops < MaxOps
    /\ remote.sowner[lid][rid] # uid
    /\ remote' = [remote EXCEPT !.sowner[lid][rid] = uid]
    /\ last' = Call("remote", lid, NoId, NoId, 0, NoRet)
    /\ ops' = ops + 1
    /\ UNCHANGED db

\* a week is played, rescored or re-listed on Sleeper
RemoteSleeperWeek(lid, entries) ==
    /\ ops < MaxOps
    /\ remote.sweek[lid] # entries
    /\ remote' = [remote EXCEPT !.sweek[lid] = entries]
    /\ last' = Call("remote", lid, NoId, NoId, 0, NoRet)
    /\ ops' = ops + 1
    /\ UNCHANGED db

\* the playoff bracket of a Sleeper league changes
RemoteSleeperBracket(lid, bracket) ==
    /\ ops < MaxOps
    /\ remote.sbracket[lid] # bracket
    /\ remote' = [remote EXCEPT !.sbracket[lid] = bracket]
    /\ last' = Call("remote", lid, NoId, NoId, 0, NoRet)
    /\ ops' = ops + 1
    /\ UNCHANGED db

\* the final week's scoreboard changes on Yahoo
RemoteYahooWeek(key, list) ==
    /\ ops < MaxOps
    /\ remote.yweek[key] # list
    /\ remote' = [remote EXCEPT !.yweek[key] = list]
    /\ last' = Call("remote", key, NoId, NoId, 0, NoRet)
    /\ ops' = ops + 1
    /\ UNCHANGED db

Next ==
    \/ \E lid \in SleeperIds : SleeperImport(lid)
    \/ \E key \in YahooKeys : YahooImport(key)
    \/ \E key \in YahooKeys : YahooImportWithChampion(key)
    \/ \E req \in CreateRequests : CreateMapping(req)
    \/ \E o \in OwnerArgs, req \in UpdateRequests : UpdateMapping(o, req)
    \/ \E o \in OwnerArgs, pf \in {"sleeper", "yahoo", "espn"} : Unlink(o, pf)
    \/ \E p \in OwnerArgs, s \in OwnerArgs : Merge(p, s)
    \/ \E uid \in {NoStr, "u1", "u2"} : RemoteRosterOwner("S24", 2, uid)
    \/ \E lid \in SleeperIds, entries \in SleeperWeekChoices : RemoteSleeperWeek(lid, entries)
    \/ \E lid \in SleeperIds, bracket \in SleeperBracketChoices :
           RemoteSleeperBracket(lid, bracket)
    \/ \E key \in YahooKeys, list \in YahooWeekChoices : RemoteYahooWeek(key, list)

Spec == Init /\ [][Next]_vars

(***************************************************************************)
(* DELETE /api/leagues/{league_id} (app/api/leagues.py).                    *)
(***************************************************************************)
\* the rows the deletes of delete_league remove, table by table, and the
\* counts of the response
DeleteRows(d, league_id) ==
    LET season_ids == {x.id : x \in {y \in d.seasons : y.league_id = league_id}}
        trade_ids == {t.id : t \in {y \in d.trades : y.season_id \in season_ids}}
        teams == {t \in d.teams : t.season_id \in season_ids}
    IN  [db |-> [d EXCEPT
                   !.trade_teams = {x \in @ : x[1] \notin trade_ids},
                   !.trades = {t \in @ : t.season_id \notin season_ids},
                   !.matchups = {m \in @ : m.season_id \notin season_ids},
                   !.teams = @ \ teams,
                   !.seasons = {x \in @ : x.id \notin season_ids},
                   !.leagues = {l \in @ : l.id # league_id}],
         status |-> 200,
         deleted_seasons |-> Cardinality(season_ids),
         deleted_teams |-> Cardinality(teams),
         deleted_matchups |-> Cardinality({m \in d.matchups : m.season_id \in season_ids}),
         deleted_trades |-> Cardinality(trade_ids)]

\* a variant of DeleteLeague: the owners of the league's teams go with it
DeleteLeagueWithOwners(d, league_id) ==
    IF \A l \in d.leagues : l.id # league_id
    THEN [db |-> d, status |-> 404, deleted_seasons |-> 0, deleted_teams |-> 0,
          deleted_matchups |-> 0, deleted_trades |-> 0]
    ELSE Bind(DeleteRows(d, league_id), LAMBDA r :
            [r EXCEPT !.db.owners =
                {o \in @ : \A t \in d.teams \ r.db.teams : t.owner_id # o.id}])

\* delete_league
DeleteLeague(d, league_id) ==
    IF \A l \in d.leagues : l.id # league_id
    THEN [db |-> d, status |-> 404, deleted_seasons |-> 0, deleted_teams |-> 0,
          deleted_matchups |-> 0, deleted_trades |-> 0]
    ELSE DeleteRows(d, league_id)

DeleteLeagueRequest(league_id) ==
    /\ ops < MaxOps
    /\ \E r \in {DeleteLeague(db, league_id)} :
           /\ db' = r.db
           /\ last' = Call("delete_league", "", league_id, NoId, r.status,
                           [teams |-> r.deleted_teams, matchups |-> r.deleted_matchups,
                            trades |-> r.deleted_trades, seasons |-> r.deleted_seasons,
                            results |-> << >>])
    /\ ops' = ops + 1
    /\ UNCHANGED remote

NextDelete ==
    \/ \E lid \in SleeperIds : SleeperImport(lid)
    \/ \E key \in YahooKeys : YahooImportWithChampion(key)
    \/ \E league_id \in 1..3 : DeleteLeagueRequest(league_id)
    \/ \E uid \in {NoStr, "u1", "u2"} : RemoteRosterOwner("S24", 2, uid)

SpecDelete == Init /\ [][NextDelete]_vars

(***************************************************************************)
(* Imports that a failing remote call interrupts.                          *)
(***************************************************************************)
\* POST /api/sleeper/import: the exception leaves import_full_league, the
\* route answers 400 and the session is closed
SleeperImportFails(lid, k, pt) ==
    /\ ops < MaxOps
    /\ k \in 1..Len(LeagueHistoryChain(lid))
    /\ \E r \in {SleeperImportInterrupted(db, remote, lid, k, pt)} :
           /\ db' = r.db
           /\ last' = Call("sleeper_import_failed", lid, r.league_id, k, 400, NoRet)
    /\ ops' = ops + 1
    /\ UNCHANGED remote

NextFail ==
    \/ \E lid \in SleeperIds : SleeperImport(lid)
    \/ \E lid \in SleeperIds, k \in 1..2, pt \in FailurePoints :
           SleeperImportFails(lid, k, pt)
    \/ \E uid \in {NoStr, "u1", "u2"} : RemoteRosterOwner("S24", 2, uid)

SpecFail == Init /\ [][NextFail]_vars

(***************************************************************************)
(* YahooService.import_historical_leagues, step by step.  `remote.listing` *)
(* is what get_user_leagues answers for a game key (ok = FALSE: the call    *)
(* raises), `remote.failing` the league keys whose get_league raises;       *)
(* `last` holds the loop variables and the results.                         *)
(***************************************************************************)
\* the default game keys, 2024 to 2019
DefaultGameKeys == <<"449", "423", "406", "399", "390", "380">>

HistoricalKeys == {"Y24", "Y23"}

ListingChoices ==
    {[ok |-> FALSE, leagues |-> << >>]} \cup
    {[ok |-> TRUE, leagues |-> l] :
        l \in {<< >>, <<"Y24">>, <<"Y24", "Y23">>, <<"Y24", "Y24">>, <<"", "Y23">>}}

GameKeyChoices ==
    {<< >>, <<"449">>, <<"449", "423">>, <<"423", "449">>, <<"449", "449">>}

InitHistorical ==
    /\ db = EmptyDb
    /\ \E a \in ListingChoices, b \in ListingChoices, f \in SUBSET HistoricalKeys :
          remote = [sowner |-> InitRemote.sowner, sweek |-> InitRemote.sweek,
                    sbracket |-> InitRemote.sbracket,
                    yweek |-> [k \in HistoricalKeys |-> InitRemote.yweek["Y24"]],
                    listing |-> [g \in {DefaultGameKeys[i] : i \in DOMAIN DefaultGameKeys} |->
                                   IF g = "449" THEN a ELSE IF g = "423" THEN b
                                   ELSE [ok |-> FALSE, leagues |-> << >>]],
                    failing |-> f]
    /\ last \in {[op |-> "import_historical_leagues", pc |-> "start", arg |-> g,
                   game_keys |-> g, leagues |-> << >>, results |-> << >>,
                   imported_league_keys |-> {}, visited |-> << >>] :
                  g \in GameKeyChoices}
    /\ ops = 0

\* if not game_keys: game_keys = [the default]
HistoricalStart ==
    /\ last.pc = "start"
    /\ last' = [last EXCEPT !.pc = "for_game_key",
                            !.game_keys = IF @ = << >> THEN DefaultGameKeys ELSE @]
    /\ UNCHANGED <<db, remote, ops>>

\* for game_key in game_keys: leagues = await self.client.get_user_leagues(game_key);
\* an exception is caught by the outer except and the loop continues
GetUserLeagues ==
    /\ last.pc = "for_game_key" /\ last.game_keys # << >>
    /\ \E answer \in {remote.listing[Head(last.game_keys)]} :
          last' = [last EXCEPT !.game_keys = Tail(@),
                               !.visited = Append(@, Head(last.game_keys)),
                               !.pc = IF answer.ok THEN "for_league" ELSE "for_game_key",
                               !.leagues = answer.leagues]
    /\ ops' = ops + 1
    /\ UNCHANGED <<db, remote>>

\* a variant of SkipsLeague: only a league without a key is skipped
SkipsKeyless(imported_league_keys, league_key) == league_key = ""

\* if not league_key or league_key in imported_league_keys: continue
SkipsLeague(imported_league_keys, league_key) ==
    league_key = "" \/ league_key \in imported_league_keys

SkipLeague ==
    /\ last.pc = "for_league" /\ last.leagues # << >>
    /\ SkipsLeague(last.imported_league_keys, Head(last.leagues))
    /\ last' = [last EXCEPT !.leagues = Tail(@)]
    /\ UNCHANGED <<db, remote, ops>>

\* the body of the inner try: get_league, import_full_league_with_champion,
\* results.append(result); an exception appends an error entry instead
HistoricalImportLeague ==
    /\ last.pc = "for_league" /\ last.leagues # << >>
    /\ ~SkipsLeague(last.imported_league_keys, Head(last.leagues))
    /\ \E league_key \in {Head(last.leagues)} :
          IF league_key \in remote.failing
          THEN /\ db' = db
               /\ last' = [last EXCEPT
                             !.leagues = Tail(@),
                             !.imported_league_keys = @ \cup {league_key},
                             !.results = Append(@, [league_key |-> league_key,
                                                    league_id |-> NoId, error |-> "e"])]
          ELSE \E r \in {YahooImportFullLeagueWithChampion(db, remote, league_key)} :
               /\ db' = r.db
               /\ last' = [last EXCEPT
                             !.leagues = Tail(@),
                             !.imported_league_keys = @ \cup {league_key},
                             !.results = Append(@, [league_key |-> league_key,
                                                    league_id |-> r.league_id,
                                                    error |-> ""])]
    /\ ops' = ops + 1
    /\ UNCHANGED remote

\* the inner loop is exhausted
NextGameKey ==
    /\ last.pc = "for_league" /\ last.leagues = << >>
    /\ last' = [last EXCEPT !.pc = "for_game_key"]
    /\ UNCHANGED <<db, remote, ops>>

\* return results
HistoricalReturn ==
    /\ last.pc = "for_game_key" /\ last.game_keys = << >>
    /\ last' = [last EXCEPT !.pc = "returned"]
    /\ UNCHANGED <<db, remote, ops>>

NextHistorical ==
    \/ HistoricalStart
    \/ GetUserLeagues
    \/ SkipLeague
    \/ HistoricalImportLeague
    \/ NextGameKey
    \/ HistoricalReturn

SpecHistorical == InitHistorical /\ [][NextHistorical]_vars

\* an awaited coroutine runs until it returns
SpecHistoricalFair == SpecHistorical /\ WF_vars(NextHistorical)

(***************************************************************************)
(* SleeperClient's bracket functions on their own: every bracket of up to  *)
(* MaxBracketLen games is given to get_champion_roster_id and              *)
(* get_runner_up_roster_id, and the call records what they return.         *)
(***************************************************************************)
\* games of a bracket: round, match index, winner and loser (null until played)
BracketGames ==
    {[r |-> r, m |-> m, w |-> wl[1], l |-> wl[2]] :
        r \in 1..2, m \in 1..2, wl \in {<<NoId, NoId>>, <<1, 2>>, <<2, 1>>}}

RECURSIVE SeqsUpTo(_, _)
SeqsUpTo(S, n) ==
    IF n = 0 THEN {<< >>}
    ELSE SeqsUpTo(S, n - 1)
         \cup {Append(q, x) : q \in {t \in SeqsUpTo(S, n - 1) : Len(t) = n - 1}, x \in S}

InitBracket ==
    /\ db = EmptyDb
    /\ remote \in {[InitRemote EXCEPT !.sbracket["S24"] = b] :
                      b \in SeqsUpTo(BracketGames, MaxBracketLen)}
    /\ last = Call("init", "", NoId, NoId, 0, NoRet)
    /\ ops = 0

\* last.p is the champion roster id returned, last.s the runner-up roster id
GetChampionAndRunnerUp(lid) ==
    /\ ops = 0
    /\ last' = Call("championship", lid, ChampionRosterId(SleeperBracket(remote, lid)),
                    RunnerUpRosterId(SleeperBracket(remote, lid)), 0, NoRet)
    /\ ops' = ops + 1
    /\ UNCHANGED <<db, remote>>

NextBracket == GetChampionAndRunnerUp("S24")

SpecBracket == InitBracket /\ [][NextBracket]_vars

(***************************************************************************)
(* SleeperClient.get_league_history_chain, one get_league call at a time,  *)
(* as import_full_league awaits it, over every way the leagues of ChainIds *)
(* can name their previous season.  Here `remote` is the previous_league_id *)
(* of each league, `last` the call: the id it started from (key), its list *)
(* `chain`, its `current_id` and where it is (pc), and `ops` counts the    *)
(* get_league calls.  The seasons' import that follows the chain is the    *)
(* subject of Spec.                                                        *)
(***************************************************************************)
ChainIds == {"L3", "L2", "L1"}

\* SleeperClient.get_previous_league_id: None for None and for ""
GetPreviousLeagueId(prev_id) == IF Falsy(prev_id) THEN NoStr ELSE prev_id

\* a variant of Continues: the walk also stops at an id it has visited
ContinuesUnseen(chain, current_id) ==
    ~Falsy(current_id) /\ ~\E i \in DOMAIN chain : chain[i] = current_id

\* while current_id:
Continues(chain, current_id) == ~Falsy(current_id)

\* a variant of ChainAppend: the id is put in front
ChainPrepend(chain, id) == <<id>> \o chain

\* chain.append(current_id)
ChainAppend(chain, id) == Append(chain, id)

InitChain ==
    /\ db = EmptyDb
    /\ remote \in [ChainIds -> ChainIds \cup {NoStr, ""}]
    /\ last \in {[op |-> "import_full_league", key |-> id, pc |-> "while",
                   chain |-> << >>, current_id |-> id] : id \in ChainIds}
    /\ ops = 0

\* one iteration of the loop: append, get_league, follow previous_league_id
GetLeagueStep ==
    /\ last.pc = "while" /\ Continues(last.chain, last.current_id)
    /\ ops < MaxCalls
    /\ last' = [last EXCEPT !.chain = ChainAppend(@, last.current_id),
                            !.current_id = GetPreviousLeagueId(remote[last.current_id])]
    /\ ops' = ops + 1
    /\ UNCHANGED <<db, remote>>

\* the loop condition fails: return chain
ChainReturn ==
    /\ last.pc = "while" /\ ~Continues(last.chain, last.current_id)
    /\ last' = [last EXCEPT !.pc = "chain_returned"]
    /\ UNCHANGED <<db, remote, ops>>

\* import_full_league goes on with the chain it was given and returns
ImportReturn ==
    /\ last.pc = "chain_returned"
    /\ last' = [last EXCEPT !.pc = "import_returned"]
    /\ UNCHANGED <<db, remote, ops>>

NextChain == GetLeagueStep \/ ChainReturn \/ ImportReturn

SpecChain == InitChain /\ [][NextChain]_vars

\* an awaited coroutine runs until it returns
SpecChainFair == SpecChain /\ WF_vars(NextChain)

(***************************************************************************)
(* YahooClient._get, step by step.  `remote.now` is time.time(), `last`     *)
(* holds the client's token, the position in _get and the log of the HTTP  *)
(* calls made, `ops` counts the HTTP calls.                                 *)
(***************************************************************************)
\* self._token is None
NoToken == [set |-> FALSE, access_token |-> 0, refresh_token |-> "", expires_at |-> 0]

\* a variant of is_expired without the five-minute buffer
IsExpiredNoBuffer(token, now) == now >= token.expires_at

\* YahooToken.is_expired
IsExpired(token, now) == now >= (token.expires_at - 300)

\* the answers of the token endpoint: status code and expires_in
TokenResponses == {[status_code |-> 200, expires_in |-> 3600],
                   [status_code |-> 200, expires_in |-> 100],
                   [status_code |-> 400, expires_in |-> 0]}

\* the status codes of the API
GetStatusCodes == {200, 401, 500}

InitGet ==
    /\ db = EmptyDb
    /\ remote \in {[now |-> t] : t \in {699, 700, 701, 1000, 1301}}
    /\ last \in {[op |-> "_get", pc |-> "ensure", token0 |-> tok, token |-> tok,
                   log |-> << >>, status_code |-> 0, http |-> 0] :
                  tok \in {NoToken} \cup
                          {[set |-> TRUE, access_token |-> 0, refresh_token |-> r,
                            expires_at |-> 1000] : r \in {"", "r"}}}
    /\ ops = 0

\* _ensure_authenticated
EnsureAuthenticated ==
    /\ last.pc = "ensure"
    /\ last' = [last EXCEPT !.pc =
                    IF ~last.token.set THEN "YahooAuthError"
                    ELSE IF IsExpired(last.token, remote.now) THEN "refresh_ensure"
                    ELSE "get"]
    /\ UNCHANGED <<db, remote, ops>>

\* refresh_access_token without a refresh token: raises, no POST
RefreshWithoutToken ==
    /\ last.pc \in {"refresh_ensure", "refresh_401"}
    /\ ~last.token.set \/ last.token.refresh_token = ""
    /\ last' = [last EXCEPT !.pc = "YahooAuthError"]
    /\ UNCHANGED <<db, remote, ops>>

\* refresh_access_token: POST to the token endpoint
RefreshAccessToken(response) ==
    /\ last.pc \in {"refresh_ensure", "refresh_401"}
    /\ last.token.set /\ last.token.refresh_token # ""
    /\ last' = IF response.status_code # 200
               THEN [last EXCEPT !.pc = "YahooAuthError",
                                 !.log = Append(@, <<"refresh", response.status_code,
                                                     last.token.access_token>>)]
               ELSE [last EXCEPT !.pc = IF last.pc = "refresh_ensure" THEN "get"
                                        ELSE "retry",
                                 !.token = [set |-> TRUE,
                                            access_token |-> last.token.access_token + 1,
                                            refresh_token |-> last.token.refresh_token,
                                            expires_at |-> remote.now + response.expires_in],
                                 !.log = Append(@, <<"refresh", 200,
                                                     last.token.access_token + 1>>)]
    /\ ops' = ops + 1
    /\ UNCHANGED <<db, remote>>

\* the first client.get
FirstGet(status_code) ==
    /\ last.pc = "get"
    /\ last' = [last EXCEPT !.pc = IF status_code = 401 THEN "refresh_401" ELSE "check",
                            !.status_code = status_code,
                            !.log = Append(@, <<"get", status_code,
                                                last.token.access_token>>)]
    /\ ops' = ops + 1
    /\ UNCHANGED <<db, remote>>

\* the client.get after the refresh that followed a 401
RetryGet(status_code) ==
    /\ last.pc = "retry"
    /\ last' = [last EXCEPT !.pc = "check",
                            !.status_code = status_code,
                            !.log = Append(@, <<"get", status_code,
                                                last.token.access_token>>)]
    /\ ops' = ops + 1
    /\ UNCHANGED <<db, remote>>

\* if response.status_code != 200: raise YahooAPIError; return response.json()
GetReturn ==
    /\ last.pc = "check"
    /\ last' = [last EXCEPT !.pc = IF last.status_code # 200 THEN "YahooAPIError"
                                   ELSE "returned"]
    /\ UNCHANGED <<db, remote, ops>>

\* the status a route answers with: the result, or the HTTPException its
\* except clauses make of YahooAPIError and YahooAuthError
HttpStatus(pc) ==
    IF pc = "returned" THEN 200
    ELSE IF pc = "YahooAPIError" THEN 400
    ELSE 401

\* a route that awaited the client answers its caller
RouteResponse ==
    /\ last.pc \in {"returned", "YahooAPIError", "YahooAuthError"}
    /\ last.http = 0
    /\ last' = [last EXCEPT !.http = HttpStatus(last.pc)]
    /\ UNCHANGED <<db, remote, ops>>

NextGet ==
    \/ RouteResponse
    \/ EnsureAuthenticated
    \/ RefreshWithoutToken
    \/ \E response \in TokenResponses : RefreshAccessToken(response)
    \/ \E status_code \in GetStatusCodes : FirstGet(status_code)
    \/ \E status_code \in GetStatusCodes : RetryGet(status_code)
    \/ GetReturn

SpecGet == InitGet /\ [][NextGet]_vars

(***************************************************************************)
(* The Yahoo token store (app/services/yahoo_token_cache.py and the        *)
(* helpers of app/api/yahoo.py).  `db.tokens` is YahooTokenCache._tokens as *)
(* saved to the cache file, `db.token_store` the module's _token_store,     *)
(* `remote.now` the time; `last` is the last operation, with the token      *)
(* _get_token gave for each session before it (before) and the token most   *)
(* recently set in the cache for each session and not deleted or cleared    *)
(* since (latest).                                                          *)
(***************************************************************************)
MaxStoreOps == 4

Sessions == {"default", "s2"}

\* no entry of _tokens
NoEntry == [present |-> FALSE, access_token |-> 0, refresh_token |-> "", expires_at |-> 0]

\* YahooToken.to_dict
ToDict(token) ==
    [present |-> TRUE, access_token |-> token.access_token,
     refresh_token |-> token.refresh_token, expires_at |-> token.expires_at]

\* YahooToken.from_dict
FromDict(data) ==
    [set |-> TRUE, access_token |-> data.access_token,
     refresh_token |-> data.refresh_token, expires_at |-> data.expires_at]

\* YahooTokenCache.get_token
CacheGetToken(d, session_id) ==
    IF ~d.tokens[session_id].present THEN NoToken ELSE FromDict(d.tokens[session_id])

\* _get_token: the file cache first, then the in-memory store
GetToken(d, session_id) ==
    IF CacheGetToken(d, session_id).set THEN CacheGetToken(d, session_id)
    ELSE d.token_store[session_id]

\* a variant of SetToken: the token is stored under every session
SetTokenEverywhere(d, token, session_id) ==
    [tokens |-> [x \in Sessions |-> ToDict(token)],
     token_store |-> [x \in Sessions |-> token]]

\* _set_token: YahooTokenCache.set_token, then _token_store[session_id] = token
SetToken(d, token, session_id) ==
    [tokens |-> [d.tokens EXCEPT ![session_id] = ToDict(token)],
     token_store |-> [d.token_store EXCEPT ![session_id] = token]]

\* _delete_token: YahooTokenCache.delete_token, then del _token_store[session_id]
DeleteToken(d, session_id) ==
    [tokens |-> [d.tokens EXCEPT ![session_id] = NoEntry],
     token_store |-> [d.token_store EXCEPT ![session_id] = NoToken]]

\* YahooTokenCache.clear_all
ClearAll(d) ==
    [tokens |-> [x \in Sessions |-> NoEntry], token_store |-> d.token_store]

\* the token the token endpoint grants in exchange for a refresh token
Refreshed(token, now) ==
    [set |-> TRUE, access_token |-> token.access_token + 10,
     refresh_token |-> token.refresh_token, expires_at |-> now + 3600]

StoreCall(op, session_id, refreshed, client_token, latest) ==
    [op |-> op, session |-> session_id, refreshed |-> refreshed,
     client_token |-> client_token,
     before |-> [x \in Sessions |-> GetToken(db, x)], latest |-> latest]

InitTokens ==
    /\ db = [tokens |-> [x \in Sessions |-> NoEntry],
             token_store |-> [x \in Sessions |-> NoToken]]
    /\ remote = [now |-> 0]
    /\ last = [op |-> "init", session |-> "", refreshed |-> FALSE,
               client_token |-> NoToken,
               before |-> [x \in Sessions |-> NoToken],
               latest |-> [x \in Sessions |-> NoToken]]
    /\ ops = 0

\* POST /auth/set-token (and the OAuth callback): _set_token(token, session_id)
AuthSetToken(session_id, access_token) ==
    /\ ops < MaxStoreOps
    /\ \E token \in {[set |-> TRUE, access_token |-> access_token,
                        refresh_token |-> "r", expires_at |-> remote.now + 3600]} :
          /\ db' = SetToken(db, token, session_id)
          /\ last' = StoreCall("set_token", session_id, FALSE, NoToken,
                               [last.latest EXCEPT ![session_id] = token])
    /\ ops' = ops + 1
    /\ UNCHANGED remote

\* DELETE /auth/logout: _delete_token(session_id)
Logout(session_id) ==
    /\ ops < MaxStoreOps
    /\ db' = DeleteToken(db, session_id)
    /\ last' = StoreCall("logout", session_id, FALSE, NoToken,
                         [last.latest EXCEPT ![session_id] = NoToken])
    /\ ops' = ops + 1
    /\ UNCHANGED remote

\* YahooTokenCache.clear_all (no route calls it; _token_store is not its to
\* clear)
CacheClearAll ==
    /\ ops < MaxStoreOps
    /\ db' = ClearAll(db)
    /\ last' = StoreCall("clear_all", "", FALSE, NoToken,
                         [x \in Sessions |-> NoToken])
    /\ ops' = ops + 1
    /\ UNCHANGED remote

\* POST /auth/refresh: refresh_access_token, then _set_token(new_token, session_id)
AuthRefresh(session_id) ==
    /\ ops < MaxStoreOps
    /\ GetToken(db, session_id).set
    /\ \E token \in {Refreshed(GetToken(db, session_id), remote.now)} :
          /\ db' = SetToken(db, token, session_id)
          /\ last' = StoreCall("auth_refresh", session_id, TRUE, token,
                               [last.latest EXCEPT ![session_id] = token])
    /\ ops' = ops + 1
    /\ UNCHANGED remote

\* a data or import route: get_authenticated_client(session_id) hands the
\* stored token to a new YahooClient, whose _get refreshes it when it is
\* expired or when the API answers 401 (rejected); the route returns what
\* the client returned
ApiRequest(session_id, rejected) ==
    /\ ops < MaxStoreOps
    /\ GetToken(db, session_id).set
    /\ \E token \in {GetToken(db, session_id)} :
          last' = IF IsExpired(token, remote.now) \/ rejected
                  THEN StoreCall("request", session_id, TRUE,
                                 Refreshed(token, remote.now), last.latest)
                  ELSE StoreCall("request", session_id, FALSE, token, last.latest)
    /\ ops' = ops + 1
    /\ UNCHANGED <<db, remote>>

\* an hour passes
HourPasses ==
    /\ ops < MaxStoreOps
    /\ remote' = [now |-> remote.now + 3600]
    /\ last' = StoreCall("tick", "", FALSE, NoToken, last.latest)
    /\ ops' = ops + 1
    /\ UNCHANGED db

NextTokens ==
    \/ \E x \in Sessions, a \in 1..2 : AuthSetToken(x, a)
    \/ \E x \in Sessions : Logout(x)
    \/ CacheClearAll
    \/ \E x \in Sessions : AuthRefresh(x)
    \/ \E x \in Sessions, rejected \in BOOLEAN : ApiRequest(x, rejected)
    \/ HourPasses

SpecTokens == InitTokens /\ [][NextTokens]_vars

(***************************************************************************)
(* PlayerCache (app/services/player_cache.py).  `remote.players` is the     *)
(* player directory of the platform (0: empty), `remote.now` the time in    *)
(* hours; `db` holds the cache file and the fields of the PlayerCache of    *)
(* the current SleeperService; `ops` counts the calls of the player         *)
(* endpoint that service has made, `last` describes the last call: the      *)
(* cache it found (before), the time (now), what it returned, whether it    *)
(* called the endpoint, and the calls made through _ensure_player_cache.    *)
(***************************************************************************)
MaxClock == 48
MaxFetches == 3

\* ttl_hours
TtlHours == 24

NoFile == [exists |-> FALSE, timestamp |-> 0, data |-> 0]

\* a variant of IsCacheValid: a file is valid up to and including ttl_hours
ValidThroughTtl(file, now) == file.exists /\ (now - file.timestamp) <= TtlHours

\* PlayerCache._is_cache_valid
IsCacheValid(file, now) == file.exists /\ (now - file.timestamp) < TtlHours

\* PlayerCache.is_loaded
IsLoaded(c) == c.loaded \/ c.players # 0

\* PlayerCache.fetch_players: the cache after the call, what it returns and
\* whether it called the player endpoint
FetchPlayersOf(c, rem, force_refresh) ==
    IF c.loaded /\ ~force_refresh
    THEN [cache |-> c, returns |-> c.players, called |-> FALSE]
    ELSE IF c.players # 0 /\ ~force_refresh
    THEN [cache |-> c, returns |-> c.players, called |-> FALSE]
    ELSE IF ~force_refresh /\ IsCacheValid(c.file, rem.now)
    THEN [cache |-> [c EXCEPT !.players = c.file.data, !.loaded = TRUE],
          returns |-> c.file.data, called |-> FALSE]
    ELSE [cache |-> [file |-> [exists |-> TRUE, timestamp |-> rem.now,
                               data |-> rem.players],
                     players |-> rem.players, loaded |-> TRUE],
          returns |-> rem.players, called |-> TRUE]

PlayerCall(op, force_refresh, r, ensured) ==
    [op |-> op, force_refresh |-> force_refresh, before |-> db, now |-> remote.now,
     returns |-> r.returns, called |-> r.called, ensured |-> ensured]

InitPlayers ==
    /\ db \in {[file |-> f, players |-> 0, loaded |-> FALSE] :
                 f \in {NoFile, [exists |-> TRUE, timestamp |-> 0, data |-> 1]}}
    /\ remote \in {[now |-> 0, players |-> v] : v \in 0..2}
    /\ last = [op |-> "init", force_refresh |-> FALSE, before |-> db, now |-> 0,
               returns |-> 0, called |-> FALSE, ensured |-> 0]
    /\ ops = 0

\* fetch_players(force_refresh)
FetchPlayers(force_refresh) ==
    /\ ops < MaxFetches
    /\ \E r \in {FetchPlayersOf(db, remote, force_refresh)} :
          /\ db' = r.cache
          /\ last' = PlayerCall("fetch_players", force_refresh, r, last.ensured)
          /\ ops' = IF r.called THEN ops + 1 ELSE ops
    /\ UNCHANGED remote

\* SleeperService._ensure_player_cache, called by import_trades for every
\* season of an import
EnsurePlayerCache ==
    /\ ops < MaxFetches
    /\ \E r \in {IF IsLoaded(db) THEN [cache |-> db, returns |-> db.players,
                                        called |-> FALSE]
                   ELSE FetchPlayersOf(db, remote, FALSE)} :
          /\ db' = r.cache
          /\ last' = PlayerCall("_ensure_player_cache", FALSE, r,
                                IF r.called THEN last.ensured + 1 ELSE last.ensured)
          /\ ops' = IF r.called THEN ops + 1 ELSE ops
    /\ UNCHANGED remote

\* the next import: a new SleeperService with a new PlayerCache on the same file
NewService ==
    /\ last.op # "new_service"
    /\ db' = [file |-> db.file, players |-> 0, loaded |-> FALSE]
    /\ last' = [op |-> "new_service", force_refresh |-> FALSE, before |-> db,
                now |-> remote.now, returns |-> 0, called |-> FALSE, ensured |-> 0]
    /\ ops' = 0
    /\ UNCHANGED remote

\* twelve hours pass
HoursPass ==
    /\ remote.now + 12 <= MaxClock
    /\ remote' = [remote EXCEPT !.now = @ + 12]
    /\ UNCHANGED <<db, last, ops>>

\* the platform's player directory changes
RemotePlayers(v) ==
    /\ remote.players # v
    /\ remote' = [remote EXCEPT !.players = v]
    /\ UNCHANGED <<db, last, ops>>

NextPlayers ==
    \/ \E force_refresh \in BOOLEAN : FetchPlayers(force_refresh)
    \/ EnsurePlayerCache
    \/ NewService
    \/ HoursPass
    \/ \E v \in 0..2 : RemotePlayers(v)

SpecPlayers == InitPlayers /\ [][NextPlayers]_vars

(***************************************************************************)
(* Two import_full_league requests for one Sleeper league id in one        *)
(* process.  A request gives the event loop up only at an await, and every *)
(* await of the service is a remote call or a nested service method, so a  *)
(* step of a request is the code between two awaits: the find-or-create    *)
(* block of one method, from its first query to its commit.  Each request  *)
(* has a session of its own (get_db); a query reads what is committed.     *)
(* `db` is the committed store, last.requests the two requests' positions  *)
(* and local variables.  The journal is not kept here.                     *)
(***************************************************************************)
Requests == 1..2

ImportedTables == {"leagues", "seasons", "owners", "teams", "matchups"}

NoJournal(d) == [d EXCEPT !.journal = << >>]

\* a variant of LeagueBlock: the query ran before an await and the insert
\* after it, so the insert does not see a row committed in between
LeagueBlockStale(d, lid) ==
    Bind(SleeperImportLeague([d EXCEPT !.leagues = {}], lid), LAMBDA r :
    Bind(CHOOSE l \in r.db.leagues : TRUE, LAMBDA row :
        [db |-> NoJournal([d EXCEPT !.leagues =
                              @ \cup {[row EXCEPT !.id = NextId(d.leagues)]}]),
         league |-> NextId(d.leagues)]))

\* import_league after its await: query, insert or update, commit
LeagueBlock(d, lid) ==
    Bind(SleeperImportLeague(d, lid), LAMBDA r :
        [db |-> NoJournal(r.db), league |-> r.league])

\* import_season after its awaits (league is given): query, insert or
\* update, commit
SeasonBlock(d, lid, league) ==
    Bind(SleeperImportSeason(d, lid, league), LAMBDA r :
        [db |-> NoJournal(r.db), season |-> r.season])

\* import_users_and_rosters after its awaits: the roster loop and the commit
RosterBlock(d, rem, lid, season) ==
    SleeperRosterLoop([db |-> d, teams |-> << >>], lid, season,
                      SleeperRosters(rem, lid))

\* season = teams[0].season if teams else (the Season of the nested
\* import_season, which the second call of import_season finds again)
SeasonOfTeams(d, teams, nested_season) ==
    IF teams # << >> THEN TeamRow(d, teams[1]).season_id ELSE nested_season

\* import_matchups after its awaits: the week loop and the commit
MatchupBlock(d, rem, lid, teams, nested_season) ==
    Bind(SleeperWeekLoop([db |-> d, matchups |-> << >>], rem, lid, teams,
                         SeasonOfTeams(d, teams, nested_season), 1),
         LAMBDA m : m.db)

\* import_trades after its awaits: the transaction loop and the commit
TradeBlock(d, lid, teams, nested_season) ==
    Bind(SleeperTradeLoop([db |-> d, trades |-> << >>], teams,
                          SeasonOfTeams(d, teams, nested_season),
                          SleeperAllTrades(lid, 1)),
         LAMBDA t : t.db)

\* detect_and_set_champion after its await
DetectBlock(d, rem, lid, season, teams) ==
    SleeperDetectAndSetChampion(d, rem, lid, season, teams).db

\* the position after a block: import_single_season calls import_season,
\* import_users_and_rosters, import_matchups, import_trades and
\* detect_and_set_champion; the three in the middle start with the methods
\* before them
AfterBlock(pc) ==
    CASE pc = "league" -> "season"
      [] pc = "season" -> "teams.season"
      [] pc = "teams.season" -> "teams"
      [] pc = "teams" -> "matchups.season"
      [] pc = "matchups.season" -> "matchups.teams"
      [] pc = "matchups.teams" -> "matchups"
      [] pc = "matchups" -> "trades.season"
      [] pc = "trades.season" -> "trades.teams"
      [] pc = "trades.teams" -> "trades"
      [] pc = "trades" -> "detect"

InitRequest ==
    [pc |-> "league", k |-> 1, league |-> NoId, season |-> NoId,
     nested_season |-> NoId, teams |-> << >>, nested_teams |-> << >>,
     created |-> {}]

\* the block a request at p.pc runs, on the committed store d: the store it
\* commits and the request's local variables afterwards
RunBlock(d, rem, p, lid0, chain) ==
    Bind(chain[p.k], LAMBDA lid :
    IF p.pc = "league"
    THEN Bind(LeagueBlock(d, lid0), LAMBDA r :
             [db |-> r.db,
              request |-> [p EXCEPT !.pc = AfterBlock(p.pc), !.league = r.league]])
    ELSE IF p.pc = "season"
    THEN Bind(SeasonBlock(d, lid, p.league), LAMBDA r :
             [db |-> r.db,
              request |-> [p EXCEPT !.pc = AfterBlock(p.pc), !.season = r.season]])
    ELSE IF p.pc \in {"teams.season", "matchups.season", "trades.season"}
    THEN Bind(SeasonBlock(d, lid, p.league), LAMBDA r :
             [db |-> r.db,
              request |-> [p EXCEPT !.pc = AfterBlock(p.pc),
                                    !.nested_season = r.season]])
    ELSE IF p.pc = "teams"
    THEN Bind(RosterBlock(d, rem, lid, p.nested_season), LAMBDA r :
             [db |-> r.db,
              request |-> [p EXCEPT !.pc = AfterBlock(p.pc), !.teams = r.teams]])
    ELSE IF p.pc \in {"matchups.teams", "trades.teams"}
    THEN Bind(RosterBlock(d, rem, lid, p.nested_season), LAMBDA r :
             [db |-> r.db,
              request |-> [p EXCEPT !.pc = AfterBlock(p.pc),
                                    !.nested_teams = r.teams]])
    ELSE IF p.pc = "matchups"
    THEN [db |-> MatchupBlock(d, rem, lid, p.nested_teams, p.nested_season),
          request |-> [p EXCEPT !.pc = AfterBlock(p.pc)]]
    ELSE IF p.pc = "trades"
    THEN [db |-> TradeBlock(d, lid, p.nested_teams, p.nested_season),
          request |-> [p EXCEPT !.pc = AfterBlock(p.pc)]]
    ELSE [db |-> DetectBlock(d, rem, lid, p.season, p.teams),
          request |-> IF p.k < Len(chain)
                      THEN [p EXCEPT !.pc = "season", !.k = p.k + 1]
                      ELSE [p EXCEPT !.pc = "returned"]])

\* the tables a block added a row to
Grown(d0, d1) == {t \in ImportedTables : Cardinality(d1[t]) > Cardinality(d0[t])}

InitConcurrent ==
    /\ db = EmptyDb
    /\ remote = InitRemote
    /\ ops = 0
    /\ \E lid \in SleeperIds :
           last = [op |-> "concurrent_import", key |-> lid,
                   requests |-> [i \in Requests |-> InitRequest]]

\* request i runs from one await to the next
RequestStep(i) ==
    /\ last.requests[i].pc # "returned"
    /\ \E r \in {RunBlock(db, remote, last.requests[i], last.key,
                          LeagueHistoryChain(last.key))} :
           /\ db' = r.db
           /\ last' = [last EXCEPT !.requests[i] =
                         [r.request EXCEPT !.created = @ \cup Grown(db, r.db)]]
    /\ UNCHANGED <<remote, ops>>

NextConcurrent == \E i \in Requests : RequestStep(i)

SpecConcurrent == InitConcurrent /\ [][NextConcurrent]_vars

(***************************************************************************)
(* The properties.  `last.pre` is the store the last request found, `db`   *)
(* the store it left.                                                      *)
(***************************************************************************)
OwnerIds(d) == {o.id : o \in d.owners}
IsImport == last.op \in {"sleeper_import", "yahoo_import", "yahoo_import_champion"}

\* C1: with the remote data unchanged, running import_full_league (Sleeper
\* or Yahoo) again with the same league id leaves every League, Season, Team,
\* Matchup, Trade and Owner row, and every field of them, as the first run
\* left them.
C1_ReimportChangesNothing ==
    /\ last.op = "sleeper_import" =>
           SleeperImportFullLeague(db, remote, last.key).db = db
    /\ last.op = "yahoo_import" =>
           YahooImportFullLeague(db, remote, last.key).db = db

\* a second run of the two-season import that found rows of every table and
\* left the store as it found it
C1_Witness ==
    /\ last.op = "sleeper_import" /\ last.key = "S24"
    /\ last.pre = db
    /\ Cardinality(db.seasons) = 2 /\ Cardinality(db.teams) = 4
    /\ Cardinality(db.owners) = 2
    /\ db.matchups # {} /\ db.trades # {} /\ db.trade_teams # {}

RECURSIVE Sum(_)
Sum(q) == IF q = << >> THEN 0 ELSE Head(q) + Sum(Tail(q))

\* what one season's import has to count, read off the remote data: the
\* rosters with an owner, the pairings of two owned rosters, the completed trades
OwnedRoster(lid, rid) == ~Falsy(remote.sowner[lid][rid])
ExpectedTeams(lid) ==
    Cardinality({i \in DOMAIN SleeperRosters(remote, lid) :
                   OwnedRoster(lid, SleeperRosters(remote, lid)[i].roster_id)})
ExpectedMatchups(lid) ==
    LET entries == remote.sweek[lid]
        With(g) == {i \in DOMAIN entries : entries[i].matchup_id = g}
    IN  MaxWeeks * Cardinality(
            {g \in {entries[i].matchup_id : i \in DOMAIN entries} \ {NoId} :
                /\ Cardinality(With(g)) = 2
                /\ \A i \in With(g) : OwnedRoster(lid, entries[i].roster_id)})
ExpectedTrades(lid) ==
    Sum([w \in 1..MaxWeeks |->
           Cardinality({i \in DOMAIN SleeperTransactions(lid, w) :
                          /\ SleeperTransactions(lid, w)[i].type = "trade"
                          /\ SleeperTransactions(lid, w)[i].status = "complete"})])

\* C2: one import_full_league call on a league whose chain has N ids leaves
\* exactly one League row of that id and N Season rows attached to it, one
\* per year of the chain, and returns the teams, matchups and trades summed
\* over the N seasons.
C2_OneLeagueNSeasons ==
    last.op = "sleeper_import" =>
        LET chain == LeagueHistoryChain(last.key)
            mine == {l \in db.leagues : l.platform = "sleeper"
                                        /\ l.platform_league_id = last.key}
            attached == {x \in db.seasons : x.league_id = last.p}
        IN  /\ Cardinality(mine) = 1
            /\ \A l \in mine : l.id = last.p
            /\ Cardinality(attached) = Len(chain)
            /\ {x.year : x \in attached}
                 = {SleeperLeague(chain[i]).season : i \in DOMAIN chain}
            /\ last.ret.seasons = Len(chain)
            /\ last.ret.teams = Sum([i \in DOMAIN chain |-> ExpectedTeams(chain[i])])
            /\ last.ret.matchups
                 = Sum([i \in DOMAIN chain |-> ExpectedMatchups(chain[i])])
            /\ last.ret.trades = Sum([i \in DOMAIN chain |-> ExpectedTrades(chain[i])])

\* the first import of the league with a two-id chain
C2_Witness ==
    /\ last.op = "sleeper_import" /\ last.key = "S24"
    /\ last.pre.leagues = {}
    /\ last.ret.seasons = 2 /\ last.ret.teams = 4
    /\ last.ret.matchups = 2 * MaxWeeks /\ last.ret.trades = 2 * MaxWeeks

\* C3: after imports that start from ids of one previous-season chain there
\* is one League row for the logical league, and no season year of it is
\* stored under two League rows.
C3_OneLeaguePerChain ==
    LET chain == LeagueHistoryChain("S24")
        rows == {l \in db.leagues :
                   /\ l.platform = "sleeper"
                   /\ \E i \in DOMAIN chain : l.platform_league_id = chain[i]}
        ids == {l.id : l \in rows}
    IN  /\ Cardinality(rows) <= 1
        /\ \A a, b \in db.seasons :
               (a.league_id \in ids /\ b.league_id \in ids /\ a.year = b.year)
                   => a.league_id = b.league_id

\* C4: the owner_id of an existing Team changes only through merge_owners;
\* an import never reassigns an existing Team.
C4_OwnerChangesOnlyByMerge ==
    \A t \in db.teams, u \in last.pre.teams :
        (t.id = u.id /\ t.owner_id # u.owner_id) => last.op = "merge_owners"

\* C5: in every reachable state no two Owner rows hold the same non-null
\* sleeper_user_id and no two hold the same non-null yahoo_user_id.
C5_PlatformIdsUnique ==
    \A a \in db.owners : \A b \in db.owners \ {a} :
        /\ ~(a.sleeper_user_id # NoStr /\ a.sleeper_user_id = b.sleeper_user_id)
        /\ ~(a.yahoo_user_id # NoStr /\ a.yahoo_user_id = b.yahoo_user_id)

\* a create request refused for an id that an Owner already holds
C5_Witness ==
    /\ last.op = "create_owner_mapping" /\ last.status \in {400, 500}
    /\ \E o \in db.owners : o.sleeper_user_id # NoStr \/ o.yahoo_user_id # NoStr
    /\ Cardinality(db.owners) >= 2

\* the merge requests on two distinct existing owners
MergeOfTwo ==
    /\ last.op = "merge_owners" /\ last.p # last.s
    /\ {last.p, last.s} \subseteq OwnerIds(last.pre)

\* C6: merge_owners(primary, secondary) on two distinct existing owners ends
\* with every Team of secondary owned by primary, no Team referencing
\* secondary, the secondary Owner row deleted, and the other Teams unchanged.
C6_MergeTransfersTeams ==
    MergeOfTwo =>
        /\ \A u \in last.pre.teams :
               u.owner_id = last.s =>
                   \E t \in db.teams : t.id = u.id /\ t.owner_id = last.p
        /\ \A t \in db.teams : t.owner_id # last.s
        /\ last.s \notin OwnerIds(db)
        /\ \A u \in last.pre.teams : u.owner_id # last.s => u \in db.teams

\* C7: merge_owners copies secondary's sleeper_user_id, yahoo_user_id,
\* display_name and avatar_url onto primary for the fields primary does not
\* have, and every field primary had keeps its value.
C7_MergeCopiesMissingFields ==
    MergeOfTwo =>
        LET P == First({o \in last.pre.owners : o.id = last.p})
            S == First({o \in last.pre.owners : o.id = last.s})
            N == First({o \in db.owners : o.id = last.p})
        IN  /\ N.id # NoId
            /\ \A f \in {"sleeper_user_id", "yahoo_user_id", "display_name",
                         "avatar_url"} :
                   N[f] = IF ~Falsy(P[f]) THEN P[f]
                          ELSE IF ~Falsy(S[f]) THEN S[f] ELSE P[f]

\* C8: merge_owners with primary equal to secondary answers 400, with a
\* primary or secondary that does not exist 404, and in both cases no Owner
\* or Team row is changed or deleted.
C8_MergeRejections ==
    last.op = "merge_owners" =>
        /\ last.p = last.s => last.status = 400
        /\ (last.p # last.s /\ ~({last.p, last.s} \subseteq OwnerIds(last.pre)))
               => last.status = 404
        /\ last.status \in {400, 404} =>
               /\ db.owners = last.pre.owners
               /\ db.teams = last.pre.teams

\* an owner with teams merged with itself
C8_Witness ==
    /\ last.op = "merge_owners" /\ last.p = last.s /\ last.status = 400
    /\ last.p \in OwnerIds(db)
    /\ \E t \in db.teams : t.owner_id = last.p

\* a Matchup row by its natural key: the year, the week, the platform ids of
\* the home and away teams, and what the import writes under that key
Natural(d, m) ==
    [year |-> (CHOOSE x \in d.seasons : x.id = m.season_id).year,
     week |-> m.week,
     home |-> TeamRow(d, m.home_team_id).platform_team_id,
     away |-> TeamRow(d, m.away_team_id).platform_team_id,
     home_score |-> m.home_score, away_score |-> m.away_score,
     winner |-> IF m.winner_team_id = NoId THEN NoStr
                ELSE TeamRow(d, m.winner_team_id).platform_team_id,
     is_tie |-> m.is_tie, is_playoff |-> m.is_playoff,
     is_consolation |-> m.is_consolation]

\* the same import run on an empty store
Fresh ==
    IF last.op = "sleeper_import"
    THEN SleeperImportFullLeague(EmptyDb, remote, last.key).db
    ELSE YahooImportFullLeague(EmptyDb, remote, last.key).db

\* C9: no two Matchup rows share (season_id, week, home_team_id,
\* away_team_id); an import keeps the rows it finds under their keys and
\* leaves under each key it imports the scores, winner, tie and playoff flags
\* of the remote data, as an import into an empty store writes them.
C9_MatchupKeyUnique ==
    /\ \A a, b \in db.matchups :
           (/\ a.season_id = b.season_id /\ a.week = b.week
            /\ a.home_team_id = b.home_team_id /\ a.away_team_id = b.away_team_id)
               => a.id = b.id
    /\ IsImport =>
           /\ \A m \in last.pre.matchups :
                  \E n \in db.matchups :
                      /\ n.id = m.id /\ n.season_id = m.season_id /\ n.week = m.week
                      /\ n.home_team_id = m.home_team_id
                      /\ n.away_team_id = m.away_team_id
           /\ {Natural(Fresh, f) : f \in Fresh.matchups}
                  \subseteq {Natural(db, m) :
                               m \in {x \in db.matchups :
                                        \E y \in db.seasons :
                                            y.id = x.season_id /\ y.league_id = last.p}}

\* a re-import that found a row and changed its scores
C9_Witness ==
    /\ IsImport
    /\ \E m \in last.pre.matchups, n \in db.matchups :
           /\ n.id = m.id
           /\ n.home_score # m.home_score
           /\ n.winner_team_id # m.winner_team_id
    /\ Cardinality(db.matchups) = Cardinality(last.pre.matchups)

\* C10: every Matchup row has winner_team_id null exactly when is_tie is true.
C10_WinnerNullIffTie ==
    \A m \in db.matchups : (m.winner_team_id = NoId) <=> m.is_tie

\* the platform of the League a Matchup row is stored under
MatchupPlatform(d, m) ==
    LET season == CHOOSE x \in d.seasons : x.id = m.season_id
    IN  (CHOOSE l \in d.leagues : l.id = season.league_id).platform

\* C11: every Matchup written by the Sleeper import_matchups has, when its
\* two scores are equal, is_tie true and no winner, and otherwise is_tie
\* false and the team of the strictly greater score as winner; a null points
\* value is stored as the score 0.
C11_SleeperWinnerByScore ==
    \A m \in {x \in db.matchups : MatchupPlatform(db, x) = "sleeper"} :
        /\ m.home_score >= 0 /\ m.away_score >= 0
        /\ m.home_score = m.away_score => (m.is_tie /\ m.winner_team_id = NoId)
        /\ m.home_score > m.away_score =>
               (~m.is_tie /\ m.winner_team_id = m.home_team_id)
        /\ m.away_score > m.home_score =>
               (~m.is_tie /\ m.winner_team_id = m.away_team_id)

\* a Sleeper import that wrote a drawn game from a null and a zero points
\* value, and a game with a winner
C11_Witness ==
    /\ last.op = "sleeper_import"
    /\ \E lid \in SleeperIds : \E i \in DOMAIN remote.sweek[lid] :
           remote.sweek[lid][i].points = NoPts
    /\ \E m \in db.matchups :
           /\ MatchupPlatform(db, m) = "sleeper"
           /\ m.is_tie /\ m.home_score = 0 /\ m.away_score = 0
    /\ \E m \in db.matchups :
           MatchupPlatform(db, m) = "sleeper" /\ m.winner_team_id = m.home_team_id

\* C12: after any sequence of Sleeper and Yahoo imports at most one Trade row
\* exists per platform transaction id, and an import of a transaction whose
\* id is already stored keeps that row (same id, same season) and inserts no
\* row for it.
C12_OneTradePerTransaction ==
    /\ \A a, b \in db.trades : a.platform_trade_id = b.platform_trade_id => a.id = b.id
    /\ IsImport =>
           /\ \A u \in last.pre.trades :
                  \E t \in db.trades :
                      /\ t.id = u.id /\ t.season_id = u.season_id
                      /\ t.platform_trade_id = u.platform_trade_id
           /\ \A t \in db.trades :
                  (\E u \in last.pre.trades : u.platform_trade_id = t.platform_trade_id)
                      => t.id \in {u.id : u \in last.pre.trades}

\* an import that processed a transaction already stored, with the trades of
\* both platforms in the store
C12_Witness ==
    /\ IsImport /\ last.ret.trades >= 1
    /\ {t.platform_trade_id : t \in last.pre.trades} = {"x1", "y1"}
    /\ Cardinality(db.trades) = 2

\* the teams a Trade row is linked to
LinkedTeams(d, trade_id) == {x[2] : x \in {y \in d.trade_teams : y[1] = trade_id}}

\* the Season row of a year under a League
SeasonOfYear(d, league_id, year) ==
    First({x \in d.seasons : x.league_id = league_id /\ x.year = year})

\* the teams of a season that the import's lookup holds for a Sleeper
\* transaction: those of its rosters that have an owner on the platform
SleeperParticipants(lid, season_id, tx) ==
    {t.id : t \in {u \in db.teams :
        /\ u.season_id = season_id
        /\ \E k \in DOMAIN tx.roster_ids :
               /\ tx.roster_ids[k] \in DOMAIN remote.sowner[lid]
               /\ OwnedRoster(lid, tx.roster_ids[k])
               /\ u.platform_team_id = ToStr(tx.roster_ids[k])}}

\* the same for a Yahoo trade: the teams of the trader and tradee keys
YahooParticipants(season_id, tx) ==
    {t.id : t \in {u \in db.teams :
        /\ u.season_id = season_id
        /\ u.platform_team_id \in {tx.trader_team_key, tx.tradee_team_key}}}

\* C13: after an import has processed a transaction, the Trade row of the
\* transaction is linked to exactly the participant teams that resolve in the
\* imported season's team lookup (trade_teams holds a pair at most once),
\* whatever links earlier imports left.
C13_TradeLinksAreParticipants ==
    /\ last.op = "sleeper_import" =>
           LET chain == LeagueHistoryChain(last.key)
           IN  \A i \in DOMAIN chain :
                   LET lid == chain[i]
                       season == SeasonOfYear(db, last.p, SleeperLeague(lid).season)
                       txs == SleeperAllTrades(lid, 1)
                   IN  \A j \in DOMAIN txs :
                           /\ ExistingTrade(db, txs[j].transaction_id).id # NoId
                           /\ LinkedTeams(db, ExistingTrade(db, txs[j].transaction_id).id)
                                  = SleeperParticipants(lid, season.id, txs[j])
    /\ last.op \in {"yahoo_import", "yahoo_import_champion"} =>
           LET season == SeasonOfYear(db, last.p, YahooLeague(last.key).season)
               txs == YahooTrades(last.key)
           IN  \A j \in DOMAIN txs :
                   ~Falsy(txs[j].transaction_id) =>
                       /\ ExistingTrade(db, txs[j].transaction_id).id # NoId
                       /\ LinkedTeams(db, ExistingTrade(db, txs[j].transaction_id).id)
                              = YahooParticipants(season.id, txs[j])

\* a Sleeper import that found the trade linked to two teams and left it
\* linked to the one participant its lookup still holds
C13_Witness ==
    /\ last.op = "sleeper_import" /\ last.key = "S24"
    /\ ExistingTrade(last.pre, "x3").id # NoId
    /\ Cardinality(LinkedTeams(last.pre, ExistingTrade(last.pre, "x3").id)) = 2
    /\ Cardinality(LinkedTeams(db, ExistingTrade(db, "x3").id)) = 1

\* champion_team_id and runner_up_team_id of a Season row, null for no row
Titles(season) ==
    IF season.id = NoId THEN <<NoId, NoId>>
    ELSE <<season.champion_team_id, season.runner_up_team_id>>

\* the brackets and final weeks that decide no champion: no bracket or a
\* championship game without winner; no final flagged playoff and not
\* consolation that names a winner
SleeperUndecided(lid) == ChampionshipMatchup(SleeperBracket(remote, lid)).w = NoId
YahooUndecided(key) ==
    LET list == YahooMatchups(remote, key, YahooLeague(key).end_week)
    IN  ~\E i \in DOMAIN list :
            /\ list[i].is_playoffs /\ ~list[i].is_consolation
            /\ ~Falsy(list[i].winner_team_key)

C15_NoDetectionWhenIncomplete ==
    /\ last.op = "sleeper_import" =>
           LET chain == LeagueHistoryChain(last.key)
           IN  \A i \in DOMAIN chain :
                   LET year == SleeperLeague(chain[i]).season
                   IN  ~SeasonOfYear(db, last.p, year).is_complete =>
                           /\ last.ret.results[i].champion_team_id = NoId
                           /\ last.ret.results[i].runner_up_team_id = NoId
                           /\ Titles(SeasonOfYear(db, last.p, year))
                                 = Titles(SeasonOfYear(last.pre, last.p, year))
    /\ last.op = "yahoo_import_champion" =>
           LET year == YahooLeague(last.key).season
           IN  ~SeasonOfYear(db, last.p, year).is_complete =>
                   /\ last.s = NoId
                   /\ Titles(SeasonOfYear(db, last.p, year))
                         = Titles(SeasonOfYear(last.pre, last.p, year))

\* C16: the championship game is the bracket game of the highest round and,
\* among the games of that round, of the lowest match index; the champion is
\* its winner w and the runner-up its loser l, each null when the game is not
\* decided, and both null for an empty bracket.
C16_ChampionshipGame ==
    last.op = "championship" =>
        LET b == SleeperBracket(remote, last.key)
            top == {i \in DOMAIN b : \A j \in DOMAIN b : b[j].r <= b[i].r}
            finals == {i \in top : \A j \in top : b[i].m <= b[j].m}
        IN  IF b = << >> THEN last.p = NoId /\ last.s = NoId
            ELSE \E i \in finals : last.p = b[i].w /\ last.s = b[i].l

\* a bracket whose top round lists the third-place game before the final
C16_Witness ==
    /\ last.op = "championship" /\ last.p = 1 /\ last.s = 2
    /\ LET b == SleeperBracket(remote, last.key)
       IN  /\ Len(b) = 3
           /\ b[1].r = 1
           /\ b[2].r = 2 /\ b[2].m = 2 /\ b[2].w = 2
           /\ b[3].r = 2 /\ b[3].m = 1 /\ b[3].w = 1

\* the lists of distinct leagues that start at id, each naming the next as
\* its previous season, the last naming none: at most one, none if the links
\* from id run into a cycle
ChainsFrom(prev, id) ==
    {c \in SeqsUpTo(ChainIds, Cardinality(ChainIds)) :
        /\ c # << >> /\ c[1] = id
        /\ \A i \in DOMAIN c : \A j \in DOMAIN c : c[i] = c[j] => i = j
        /\ \A i \in 1..(Len(c) - 1) : prev[c[i]] = c[i + 1]
        /\ Falsy(prev[c[Len(c)]])}

\* C17: for a chain of N leagues that ends in a null or empty pointer,
\* get_league_history_chain returns, after exactly N get_league calls, the N
\* ids newest first, starting with the input id and without duplicates.
C17_ChainOfNLeagues ==
    /\ [](last.pc # "while" =>
             /\ last.chain \in ChainsFrom(remote, last.key)
             /\ ops = Len(last.chain))
    /\ \A id \in ChainIds :
           (last.key = id /\ ChainsFrom(remote, id) # {}) ~> (last.pc = "import_returned")

\* the walk of three leagues, after its third call, returned
C17_Witness ==
    /\ last.pc = "chain_returned" /\ ops = 3
    /\ last.chain = <<"L3", "L2", "L1">>
    /\ remote["L1"] = "" /\ remote["L2"] = "L1"

\* C18: when the previous_league_id links from a league run into a cycle
\* (a league naming itself included), the loop condition of
\* get_league_history_chain holds at every iteration: the walk never returns,
\* and neither does import_full_league for that league.
C18_CycleNeverReturns ==
    ChainsFrom(remote, last.key) = {} =>
        /\ last.pc = "while"
        /\ Continues(last.chain, last.current_id)

\* a league that names itself, visited again at every call
C18_Witness ==
    /\ remote[last.key] = last.key
    /\ ops = MaxCalls /\ Len(last.chain) = MaxCalls
    /\ \A i \in DOMAIN last.chain : last.chain[i] = last.key
    /\ last.pc = "while"

\* in journal J every entry b comes after an entry a
Precedes(J, a, b) ==
    \A i \in DOMAIN J : J[i] = b => \E j \in 1..(i - 1) : J[j] = a

\* the seasons the last import wrote for
JournalSeasons(J) == {J[i][2] : i \in {k \in DOMAIN J : J[k][1] = "season"}}

\* the kinds of entry the journal has for a season
JournalKinds(J, s) == {J[i][1] : i \in {k \in DOMAIN J : J[k][2] = s /\ J[k][1] # "league"}}

\* C19: within the import of a season the League is written before the
\* Season, the Season before its Teams, the Teams before the Matchups and the
\* Trades, and champion detection starts after the last write of Teams of
\* that season; this for every season of an import, on both platforms.
C19_WriteOrder ==
    IsImport =>
        LET J == db.journal
        IN  /\ J # << >> /\ J[1] = <<"league", last.p>>
            /\ \A s \in JournalSeasons(J) :
                   /\ Precedes(J, <<"league", SeasonOfYear(db, last.p,
                          (CHOOSE x \in db.seasons : x.id = s).year).league_id>>,
                          <<"season", s>>)
                   /\ Precedes(J, <<"season", s>>, <<"teams", s>>)
                   /\ Precedes(J, <<"teams", s>>, <<"matchups", s>>)
                   /\ Precedes(J, <<"teams", s>>, <<"trades", s>>)
                   /\ Precedes(J, <<"teams", s>>, <<"detect", s>>)
                   /\ \A i \in DOMAIN J : \A j \in DOMAIN J :
                          (J[i] = <<"detect", s>> /\ J[j] = <<"teams", s>>) => j < i
                   /\ {"season", "teams", "matchups", "trades"} \subseteq JournalKinds(J, s)
                   /\ last.op # "yahoo_import" => "detect" \in JournalKinds(J, s)
            /\ last.op = "sleeper_import" =>
                   Cardinality(JournalSeasons(J)) = Len(LeagueHistoryChain(last.key))

\* a historical Sleeper import that wrote for two seasons and looked for the
\* champion of each
C19_Witness ==
    /\ last.op = "sleeper_import"
    /\ Cardinality(JournalSeasons(db.journal)) = 2
    /\ \A s \in JournalSeasons(db.journal) : "detect" \in JournalKinds(db.journal, s)
    /\ Cardinality(db.teams) >= 4 /\ db.matchups # {} /\ db.trades # {}

\* the positions of the GETs in the log of a request
GetsOf(log) == {i \in DOMAIN log : log[i][1] = "get"}

\* _get has returned or raised
GetEnded == last.pc \in {"returned", "YahooAPIError", "YahooAuthError"}

\* C20: in one _get request a token within 300 seconds of expires_at (or
\* past it) is refreshed before the first GET, which carries the new token;
\* a 401 to the first GET is followed by a refresh and, the refresh granted,
\* by exactly one more GET with the new token; without a 401 there is one
\* GET; no request issues more than two GETs.
C20_RefreshAndRetryOnce ==
    LET log == last.log
        gets == GetsOf(log)
    IN  /\ Cardinality(gets) <= 2
        /\ (gets # {} /\ remote.now >= last.token0.expires_at - 300) =>
               /\ log[1] = <<"refresh", 200, 1>>
               /\ log[2][1] = "get" /\ log[2][3] = 1
        /\ \A i \in gets :
               (i = Len(log) /\ Cardinality(gets) = 2) =>
                   /\ log[i - 2][1] = "get" /\ log[i - 2][2] = 401
                   /\ log[i - 1] = <<"refresh", 200, log[i - 2][3] + 1>>
                   /\ log[i][3] = log[i - 2][3] + 1
        /\ GetEnded =>
               \A i \in gets :
                   (log[i][2] = 401 /\ \A j \in gets : j >= i) =>
                       \/ /\ last.pc = "YahooAuthError" /\ gets = {i}
                          /\ Len(log) > i => (Len(log) = i + 1 /\ log[i + 1][1] = "refresh"
                                                 /\ log[i + 1][2] # 200)
                       \/ /\ last.pc # "YahooAuthError" /\ gets = {i, i + 2}
                          /\ Len(log) = i + 2
        /\ GetEnded =>
               \A i \in gets :
                   (log[i][2] # 401 /\ \A j \in gets : j >= i) => gets = {i}

\* a request that found its token 300 seconds before expires_at, refreshed
\* it, got a 401 to the first GET, refreshed again and ended after the retry
C20_Witness ==
    /\ last.op = "_get" /\ last.pc \in {"returned", "YahooAPIError"}
    /\ remote.now = last.token0.expires_at - 300
    /\ Len(last.log) = 4
    /\ last.log[1][1] = "refresh" /\ last.log[2] = <<"get", 401, 1>>
    /\ last.log[3][1] = "refresh" /\ last.log[4][1] = "get" /\ last.log[4][3] = 2

\* the request ran without a token
MissingToken == ~last.token0.set

\* the request needed a refresh that was refused or could not be asked for
RefreshFailed ==
    /\ last.pc = "YahooAuthError" /\ last.token0.set

\* the retry after the refresh was answered 401 again
RejectedAfterRetry ==
    /\ Cardinality(GetsOf(last.log)) = 2
    /\ last.log[Len(last.log)][2] = 401

\* C21: a Yahoo request that runs with a missing token, with an expired token
\* whose refresh fails, or with a token still rejected with 401 after the
\* refresh and retry, is answered with an authentication error (HTTP 401),
\* not with a remote-API error and not with a result.
C21_AuthErrorSurfaced ==
    (last.op = "_get" /\ last.http # 0
        /\ (MissingToken \/ RefreshFailed \/ RejectedAfterRetry))
    => (last.pc = "YahooAuthError" /\ last.http = 401)

\* the League row and the Season, Team, Matchup and Trade rows of seasons S
RowsOf(d, league, S) ==
    [leagues |-> {x \in d.leagues : x.id = league},
     seasons |-> {x \in d.seasons : x.id \in S},
     teams |-> {x \in d.teams : x.season_id \in S},
     matchups |-> {x \in d.matchups : x.season_id \in S},
     trades |-> {x \in d.trades : x.season_id \in S}]

\* the seasons of the first n leagues of the chain of lid, as stored in d
ChainSeasons(d, league, lid, n) ==
    {SeasonOfYear(d, league, SleeperLeague(LeagueHistoryChain(lid)[i]).season).id :
        i \in 1..n}

\* C22: when a remote call for the k-th season of a Sleeper historical import
\* fails, the import ends with an error and the League row and every Season,
\* Team, Matchup and Trade row of the k-1 seasons imported before it are as
\* they were when the (k-1)-th season was finished.
C22_FailureKeepsEarlierSeasons ==
    last.op = "sleeper_import_failed" =>
        /\ last.status = 400
        /\ \E prior \in {SleeperImportPrefix(last.pre, remote, last.key, last.s - 1)} :
              \E S \in {ChainSeasons(prior.db, prior.league_id, last.key, last.s - 1)} :
                 /\ Cardinality(S) = last.s - 1
                 /\ RowsOf(db, last.p, S) = RowsOf(prior.db, prior.league_id, S)

\* the import of the second season of the chain failed after its trades were
\* committed; the first season's rows of every table are stored
C22_Witness ==
    /\ last.op = "sleeper_import_failed" /\ last.s = 2
    /\ Cardinality(db.seasons) = 2
    /\ \E x \in db.seasons :
          /\ x.year = SleeperLeague(last.key).season
          /\ \E t \in db.teams : t.season_id = x.id
          /\ \E m \in db.matchups : m.season_id = x.id
          /\ \E t \in db.seasons : t.id # x.id /\ \E y \in db.trades : y.season_id = t.id

\* the game keys a call goes through
EffectiveGameKeys(arg) == IF arg = << >> THEN DefaultGameKeys ELSE arg

\* the league keys listed for the game keys of a call whose listing succeeds
ListedLeagueKeys(arg) ==
    UNION {{remote.listing[EffectiveGameKeys(arg)[i]].leagues[j] :
               j \in DOMAIN remote.listing[EffectiveGameKeys(arg)[i]].leagues} :
           i \in {k \in DOMAIN EffectiveGameKeys(arg) :
                     remote.listing[EffectiveGameKeys(arg)[k]].ok}} \ {""}

\* C23: import_historical_leagues always returns; it has then asked for the
\* leagues of every game key in turn, whether or not an earlier one failed,
\* and its results hold exactly one entry for each distinct league key listed
\* by the game keys that answered: an error entry when the league's import
\* failed, the import's result otherwise.
C23_HistoricalNeverAborts ==
    /\ <>(last.pc = "returned")
    /\ [](last.pc = "returned" =>
            /\ last.visited = EffectiveGameKeys(last.arg)
            /\ {last.results[i].league_key : i \in DOMAIN last.results}
                   = ListedLeagueKeys(last.arg)
            /\ \A i \in DOMAIN last.results : \A j \in DOMAIN last.results :
                   last.results[i].league_key = last.results[j].league_key => i = j
            /\ \A i \in DOMAIN last.results :
                   IF last.results[i].league_key \in remote.failing
                   THEN last.results[i].error # "" /\ last.results[i].league_id = NoId
                   ELSE /\ last.results[i].error = ""
                        /\ \E l \in db.leagues :
                              /\ l.id = last.results[i].league_id
                              /\ l.platform_league_id = last.results[i].league_key)

\* a call whose first game key is refused, whose second lists a league twice
\* and whose results hold an error entry followed by an imported league
C23_Witness ==
    /\ last.op = "import_historical_leagues" /\ last.pc = "returned"
    /\ last.arg = <<"423", "449">>
    /\ ~remote.listing["423"].ok
    /\ remote.listing["449"].leagues = <<"Y24", "Y23">>
    /\ Len(last.results) = 2
    /\ last.results[1].error # "" /\ last.results[2].error = ""
    /\ Cardinality(db.leagues) = 1

\* the Teams of league `league` and year `year` stored in d for a platform team id
TeamsFor(d, league, year, platform_team_id) ==
    {t \in d.teams : /\ t.platform_team_id = platform_team_id
                      /\ \E x \in d.seasons : /\ x.id = t.season_id
                                               /\ x.league_id = league /\ x.year = year}

\* the Owners the last request created
NewOwners == {o \in db.owners : o.id \notin OwnerIds(last.pre)}

\* C24: an import creates no Team for a Sleeper roster without owner_id or for
\* a Yahoo standings entry with neither guid nor manager_id, creates no Owner
\* for it (every Owner it creates carries the user id of an entry that has
\* one), and does not count it in teams_imported.
C24_OwnerlessEntriesSkipped ==
    /\ last.op = "sleeper_import" =>
          LET chain == LeagueHistoryChain(last.key)
          IN  /\ \A i \in DOMAIN chain :
                   \A j \in DOMAIN SleeperRosters(remote, chain[i]) :
                      LET roster == SleeperRosters(remote, chain[i])[j]
                      IN  Falsy(roster.owner_id) =>
                            TeamsFor(db, last.p, SleeperLeague(chain[i]).season,
                                     ToStr(roster.roster_id))
                            \subseteq last.pre.teams
              /\ \A o \in NewOwners :
                   /\ ~Falsy(o.sleeper_user_id)
                   /\ \E i \in DOMAIN chain :
                         \E j \in DOMAIN SleeperRosters(remote, chain[i]) :
                            SleeperRosters(remote, chain[i])[j].owner_id = o.sleeper_user_id
              /\ last.ret.teams = Sum([i \in DOMAIN chain |-> ExpectedTeams(chain[i])])
    /\ last.op \in {"yahoo_import", "yahoo_import_champion"} =>
          LET standings == YahooStandings(last.key)
              managed == {j \in DOMAIN standings :
                            ~(Falsy(standings[j].guid) /\ Falsy(standings[j].manager_id))}
          IN  /\ \A j \in DOMAIN standings \ managed :
                   TeamsFor(db, last.p, YahooLeague(last.key).season, standings[j].team_key)
                      = {}
              /\ \A o \in NewOwners :
                   /\ ~Falsy(o.yahoo_user_id)
                   /\ \E j \in managed :
                         o.yahoo_user_id \in {standings[j].guid, standings[j].manager_id}
              /\ last.ret.teams = Cardinality(managed)

\* the first import of a league one of whose rosters has no owner: three Teams
\* for four rosters
C24_Witness ==
    /\ last.op = "sleeper_import" /\ last.key = "S24"
    /\ Falsy(remote.sowner["S24"][2])
    /\ last.pre.teams = {}
    /\ last.ret.teams = 3 /\ Cardinality(db.teams) = 3
    /\ NewOwners # {}

\* C25: every Team linked to a Trade is a Team of the Trade's own season.
C25_TradeTeamsOfOwnSeason ==
    \A x \in db.trade_teams :
        \A t \in db.trades : \A team \in db.teams :
            (t.id = x[1] /\ team.id = x[2]) => team.season_id = t.season_id

\* C26: after a request during which the client refreshed its access token,
\* the token stored for the session is the refreshed token.
C26_RefreshedTokenStored ==
    (last.op = "request" /\ last.refreshed) =>
        GetToken(db, last.session) = last.client_token

\* C30: after any sequence of set, delete and clear_all operations the cache's
\* lookup for a session gives the token most recently set for it, or nothing
\* if it was never set or was deleted or cleared since; _get_token gives the
\* token just set after _set_token and nothing after logout, and gives for
\* every other session what it gave before the operation.
C30_LookupReturnsLatest ==
    /\ \A x \in Sessions : CacheGetToken(db, x) = last.latest[x]
    /\ last.op \in {"set_token", "auth_refresh"} =>
           /\ GetToken(db, last.session) = last.latest[last.session]
           /\ last.latest[last.session].set
    /\ last.op = "logout" => ~GetToken(db, last.session).set
    /\ last.op \in {"set_token", "auth_refresh", "logout"} =>
           \A x \in Sessions \ {last.session} : GetToken(db, x) = last.before[x]
    /\ last.op \in {"request", "tick"} =>
           \A x \in Sessions : GetToken(db, x) = last.before[x]

\* a session is logged out after two tokens were set for it, while the other
\* session keeps the token set for it
C30_Witness ==
    /\ last.op = "logout" /\ last.session = "default"
    /\ last.before["default"].set /\ last.before["default"].access_token = 2
    /\ ~GetToken(db, "default").set
    /\ GetToken(db, "s2").set /\ GetToken(db, "s2").access_token = 1

\* C28: delete_league of a league that exists removes the League, its
\* Seasons, the Teams, Matchups and Trades of those seasons and the links of
\* those Trades, reports how many Seasons, Teams, Matchups and Trades it
\* removed, and leaves the Owners and every other row as they were; for an
\* id that names no League it answers 404 and changes nothing.
C28_DeleteLeagueCascade ==
    last.op = "delete_league" =>
        LET pre == last.pre
            S == {x.id : x \in {y \in pre.seasons : y.league_id = last.p}}
            gone == {t.id : t \in {y \in pre.trades : y.season_id \in S}}
        IN  IF \A l \in pre.leagues : l.id # last.p
            THEN last.status = 404 /\ db = pre
            ELSE /\ last.status = 200
                 /\ db.leagues = {l \in pre.leagues : l.id # last.p}
                 /\ db.seasons = {x \in pre.seasons : x.league_id # last.p}
                 /\ db.teams = {t \in pre.teams : t.season_id \notin S}
                 /\ db.matchups = {m \in pre.matchups : m.season_id \notin S}
                 /\ db.trades = {t \in pre.trades : t.season_id \notin S}
                 /\ db.trade_teams = {x \in pre.trade_teams : x[1] \notin gone}
                 /\ db.owners = pre.owners
                 /\ last.ret.seasons = Cardinality(S)
                 /\ last.ret.teams = Cardinality(pre.teams) - Cardinality(db.teams)
                 /\ last.ret.matchups
                       = Cardinality(pre.matchups) - Cardinality(db.matchups)
                 /\ last.ret.trades = Cardinality(pre.trades) - Cardinality(db.trades)

\* one of two stored leagues, with seasons, teams, matchups and trades, is
\* deleted and the other one stays
C28_Witness ==
    /\ last.op = "delete_league" /\ last.status = 200
    /\ Cardinality(last.pre.leagues) = 2 /\ Cardinality(db.leagues) = 1
    /\ last.ret.seasons = 2 /\ last.ret.teams = 4
    /\ last.ret.matchups > 0 /\ last.ret.trades > 0
    /\ db.teams # {} /\ db.matchups # {} /\ db.owners # {}

\* C29: fetch_players calls the player endpoint exactly when force_refresh is
\* set or when there is neither data in memory nor a cache file younger than
\* ttl_hours; otherwise it returns the data in memory, or else the file's,
\* without a call; and the calls import_trades makes through
\* _ensure_player_cache fetch the directory at most once per service.
C29_FetchOnlyWhenNeeded ==
    /\ last.op = "fetch_players" =>
          LET c == last.before
              in_memory == c.loaded \/ c.players # 0
              on_file == c.file.exists /\ last.now - c.file.timestamp < TtlHours
          IN  /\ last.called <=> (last.force_refresh \/ (~in_memory /\ ~on_file))
              /\ last.called => /\ last.returns = db.players
                                 /\ db.file.exists /\ db.file.timestamp = last.now
                                 /\ db.file.data = db.players
              /\ ~last.called =>
                    /\ last.returns = IF in_memory THEN c.players ELSE c.file.data
                    /\ db.file = c.file
    /\ last.ensured <= 1
    /\ last.op = "_ensure_player_cache" => IsLoaded(db)

\* a call that found nothing in memory and a cache file exactly ttl_hours old,
\* and fetched the directory
C29_Witness ==
    /\ last.op = "fetch_players" /\ ~last.force_refresh /\ last.called
    /\ last.before.file.exists /\ ~last.before.loaded
    /\ last.now - last.before.file.timestamp = TtlHours
    /\ last.returns = 2

\* the store one import_full_league of the same id leaves on an empty store
SequentialImport == SleeperImportFullLeague(EmptyDb, remote, last.key).db

BothReturned == \A i \in Requests : last.requests[i].pc = "returned"

\* C27: while two import_full_league requests for the same Sleeper league id
\* run interleaved at their awaits, no two League rows share (platform,
\* platform_league_id), no two Season rows (league_id, year), no two Owner
\* rows a sleeper_user_id, no two Team rows (season_id, platform_team_id) and
\* no two Matchup rows (season_id, week, home_team_id, away_team_id); when
\* both have returned these tables hold the rows of a single import.
C27_NoDuplicateRows ==
    /\ \A a, b \in db.leagues :
           (a.platform = b.platform /\ a.platform_league_id = b.platform_league_id)
               => a = b
    /\ \A a, b \in db.seasons :
           (a.league_id = b.league_id /\ a.year = b.year) => a = b
    /\ \A a, b \in db.owners :
           (a.sleeper_user_id # NoStr /\ a.sleeper_user_id = b.sleeper_user_id)
               => a = b
    /\ \A a, b \in db.teams :
           (a.season_id = b.season_id /\ a.platform_team_id = b.platform_team_id)
               => a = b
    /\ \A a, b \in db.matchups :
           (/\ a.season_id = b.season_id /\ a.week = b.week
            /\ a.home_team_id = b.home_team_id /\ a.away_team_id = b.away_team_id)
               => a = b
    /\ BothReturned => \A t \in ImportedTables : db[t] = SequentialImport[t]

\* both requests have returned and each of them inserted rows: the
\* requests overtook each other between awaits
C27_Witness ==
    /\ BothReturned
    /\ "leagues" \in last.requests[1].created
    /\ "matchups" \in last.requests[2].created
    /\ "teams" \in last.requests[1].created
    /\ db.matchups # {}

====
